---- MODULE Spec2Model ----
(***************************************************************************)
(* A model of mark, a directory-bookmarking command line tool.             *)
(*                                                                         *)
(* Bookmarks are symbolic links kept in one directory (the marks           *)
(* directory).  The model covers the bookmark operations of main.go        *)
(* (create, list, delete, jump) over a small file system, and the shell    *)
(* completion set-up of completion.go over the user's start-up files.      *)
(*                                                                         *)
(* Strings are TLA+ strings; the Go string functions the code calls        *)
(* (strings.Contains, strings.ReplaceAll, filepath.Base, ...) are          *)
(* computed character by character.                                        *)
(***************************************************************************)
EXTENDS Integers, Sequences, FiniteSets, TLC

VARIABLES
    fs,             \* the file system outside the marks directory: path -> node
    marks,          \* the entries of the marks directory: name -> node
    marksDirExists, \* whether the marks directory itself exists
    last,           \* the outcome of the last command that ran
    steps,          \* number of commands and file-system changes so far
    shell,          \* the value of $SHELL
    home,           \* the shell files of the home directory: name -> file
    config,         \* the file ~/.mark
    flow,           \* the outcome of the last set-up run
    denied          \* the shell files that cannot be opened for writing

bmVars == <<fs, marks, marksDirExists, last>>

shVars == <<shell, home, config, flow, denied>>

vars == <<fs, marks, marksDirExists, last, steps, shell, home, config, flow, denied>>

-----------------------------------------------------------------------------
(* Bounds of the model.                                                    *)

\* The number of commands and outside changes one behaviour runs.
MaxSteps == 3

\* The number of set-up runs one behaviour makes.
MaxFlows == 3

\* The number of invocations of mark a behaviour of SpecMain runs.
MaxInvocations == 2

-----------------------------------------------------------------------------
(* Go string functions.                                                    *)

\* strings.HasPrefix
HasPrefix(s, p) == Len(s) >= Len(p) /\ SubSeq(s, 1, Len(p)) = p

\* strings.Contains
Contains(s, sub) ==
    \E i \in 1..(Len(s) - Len(sub) + 1) : SubSeq(s, i, i + Len(sub) - 1) = sub

\* strings.ReplaceAll(s, old, new) for a one-character old
RECURSIVE ReplaceAll(_, _, _)
ReplaceAll(s, old, new) ==
    IF Len(s) = 0 THEN ""
    ELSE (IF SubSeq(s, 1, 1) = old THEN new ELSE SubSeq(s, 1, 1))
             \o ReplaceAll(SubSeq(s, 2, Len(s)), old, new)

\* The position of the last "/" of s, 0 when it has none.
RECURSIVE LastSlash(_, _)
LastSlash(s, i) ==
    IF i = 0 THEN 0
    ELSE IF SubSeq(s, i, i) = "/" THEN i ELSE LastSlash(s, i - 1)

\* s without its trailing slashes
RECURSIVE StripSlashes(_)
StripSlashes(s) ==
    IF Len(s) > 0 /\ SubSeq(s, Len(s), Len(s)) = "/"
    THEN StripSlashes(SubSeq(s, 1, Len(s) - 1))
    ELSE s

\* filepath.Base
Base(path) ==
    IF path = "" THEN "."
    ELSE LET p == StripSlashes(path)
         IN  IF p = "" THEN "/"
             ELSE SubSeq(p, LastSlash(p, Len(p)) + 1, Len(p))

\* filepath.IsAbs
IsAbs(path) == HasPrefix(path, "/")

\* filepath.Join(dir, elem) for a single element: the result is cleaned,
\* so joining "." or "" gives dir itself.
Join(dir, elem) ==
    IF elem = "" \/ elem = "." THEN dir ELSE dir \o "/" \o elem

\* The byte order of the characters that occur in names.
Alphabet == " -./_abcdefghijklmnopqrstuvwxyz~"

Rank(c) == CHOOSE i \in 1..Len(Alphabet) : SubSeq(Alphabet, i, i) = c

\* Go's s < t on strings (byte-wise lexicographic order)
RECURSIVE StrLess(_, _)
StrLess(s, t) ==
    IF Len(t) = 0 THEN FALSE
    ELSE IF Len(s) = 0 THEN TRUE
    ELSE LET a == Rank(SubSeq(s, 1, 1))
             b == Rank(SubSeq(t, 1, 1))
         IN  IF a # b THEN a < b
             ELSE StrLess(SubSeq(s, 2, Len(s)), SubSeq(t, 2, Len(t)))

-----------------------------------------------------------------------------
(* The file system.                                                        *)

HomeDir == "/h"

\* config.MarksDir, the default ~/.marks expanded
MarksDir == "/h/.marks"

\* The paths outside the marks directory that may hold something.
FsPaths == {"/h/a", "/h/b c", "/h/l", "/h/f"}

NoNode == [kind |-> "none", target |-> ""]
DirNode == [kind |-> "dir", target |-> ""]
FileNode == [kind |-> "file", target |-> ""]
LinkNode(t) == [kind |-> "symlink", target |-> t]

NoPath == [ok |-> FALSE, path |-> ""]
OkPath(p) == [ok |-> TRUE, path |-> p]

\* What lies at an absolute path, without following a link there (os.Lstat).
NodeAt(p) ==
    IF p = MarksDir
    THEN (IF marksDirExists THEN DirNode ELSE NoNode)
    ELSE IF p \in FsPaths THEN fs[p]
    ELSE IF HasPrefix(p, MarksDir \o "/")
              /\ marksDirExists
              /\ SubSeq(p, Len(MarksDir) + 2, Len(p)) \in DOMAIN marks
         THEN marks[SubSeq(p, Len(MarksDir) + 2, Len(p))]
    ELSE NoNode

\* The directory a path lies in.
ParentOf(p) == IF LastSlash(p, Len(p)) <= 1 THEN "/" ELSE SubSeq(p, 1, LastSlash(p, Len(p)) - 1)

\* Following the links at an absolute path to what is finally there.  A chain
\* longer than the number of links that exist is a loop.
RECURSIVE Walk(_, _)
Walk(p, fuel) ==
    LET n == NodeAt(p)
    IN  IF n.kind = "none" THEN NoPath
        ELSE IF n.kind = "symlink"
             THEN IF fuel = 0 THEN NoPath
                  ELSE Walk(IF IsAbs(n.target) THEN n.target
                            ELSE Join(ParentOf(p), n.target), fuel - 1)
        ELSE OkPath(p)

LinkFuel == Cardinality(FsPaths) + 1

\* filepath.EvalSymlinks: an absolute path is resolved to the real path; a
\* relative path is resolved against the working directory and stays
\* relative ("." stays ".").
EvalSymlinks(path, cwd) ==
    IF IsAbs(path) THEN Walk(path, LinkFuel)
    ELSE IF path = "." THEN OkPath(".")
    ELSE NoPath

\* os.Stat: the kind of what a path finally leads to.
Stat(path, cwd) ==
    LET r == IF IsAbs(path) THEN Walk(path, LinkFuel)
             ELSE IF path = "." THEN Walk(cwd, LinkFuel)
             ELSE NoPath
    IN  IF r.ok THEN [ok |-> TRUE, kind |-> NodeAt(r.path).kind]
        ELSE [ok |-> FALSE, kind |-> "none"]

\* expandPath
ExpandPath(path, cwd) ==
    LET p == IF HasPrefix(path, "~/")
             THEN Join(HomeDir, SubSeq(path, 3, Len(path)))
             ELSE path
        r == EvalSymlinks(p, cwd)
    IN  IF r.ok THEN r.path ELSE p

-----------------------------------------------------------------------------
(* The bookmark commands of main.go.  Each is an operator from the command  *)
(* line arguments to the outcome: the error it exits with ("ok" for exit    *)
(* code 0), what it prints on standard output, and the marks directory      *)
(* afterwards.                                                              *)

Outcome(op, name, err) ==
    [op |-> op, name |-> name, err |-> err, path |-> "", listing |-> <<>>,
     dir |-> "", marks |-> marks, marksDirExists |-> marksDirExists]

\* A variant of IsSymlink that takes any entry for a symbolic link.
IsSymlinkAny(fileInfo) == fileInfo.kind # "none"

\* fileInfo.Mode()&os.ModeSymlink != 0
IsSymlink(fileInfo) == fileInfo.kind = "symlink"

\* createBookmark, determining the target directory: an explicit path is
\* expanded, a missing one is the working directory (os.Getwd returns $PWD,
\* which may itself be a link to the directory).
TargetDirOf(targetPath, pwd) ==
    IF targetPath # "" THEN ExpandPath(targetPath, pwd) ELSE pwd

\* A variant of TargetCheck without the test fileInfo.IsDir().
TargetCheckExists(targetPath, targetDir, pwd) ==
    LET fileInfo == Stat(targetDir, pwd)
    IN  IF targetPath = "" THEN "ok"
        ELSE IF ~fileInfo.ok THEN "NotFound"
        ELSE "ok"

\* createBookmark, validating an explicit target: "ok", or the error.
TargetCheck(targetPath, targetDir, pwd) ==
    LET fileInfo == Stat(targetDir, pwd)
    IN  IF targetPath = "" THEN "ok"
        ELSE IF ~fileInfo.ok THEN "NotFound"
        ELSE IF ~(fileInfo.kind = "dir") THEN "NotADirectory"
        ELSE "ok"

\* A variant of BookmarkName that keeps the spaces of the name.
BookmarkNameRaw(name, targetDir) ==
    IF name = "" THEN Base(targetDir) ELSE name

\* createBookmark, the name the bookmark is stored under.
BookmarkName(name, targetDir) ==
    ReplaceAll(IF name = "" THEN Base(targetDir) ELSE name, " ", "_")

\* A variant of Occupied that sees symbolic links only.
OccupiedByLink(symlinkPath) ==
    symlinkPath # MarksDir /\ IsSymlink(NodeAt(symlinkPath))

\* createBookmark, the check that the bookmark already exists:
\* os.Lstat(symlinkPath) succeeds.  It runs after os.MkdirAll(MarksDir).
Occupied(symlinkPath) ==
    symlinkPath = MarksDir \/ NodeAt(symlinkPath).kind # "none"

\* A variant of os.Symlink that replaces the link that is there.
SymlinkReplaces(targetDir, name) ==
    [ok |-> TRUE,
     marks |-> [n \in (IF marksDirExists THEN DOMAIN marks ELSE {}) \cup {name} |->
                   IF n = name THEN LinkNode(targetDir) ELSE marks[n]]]

\* os.Symlink(targetDir, <MarksDir>/name): it fails when the name is taken.
Symlink(targetDir, name) ==
    IF marksDirExists /\ name \in DOMAIN marks
    THEN [ok |-> FALSE, marks |-> marks]
    ELSE [ok |-> TRUE,
          marks |-> (IF marksDirExists THEN marks ELSE << >>)
                        @@ (name :> LinkNode(targetDir))]

\* createBookmark(config, name, targetPath), run with working directory pwd
CreateBookmark(name, targetPath, pwd) ==
    LET targetDir == TargetDirOf(targetPath, pwd)
        checked == TargetCheck(targetPath, targetDir, pwd)
        name2 == BookmarkName(name, targetDir)
        symlinkPath == Join(MarksDir, name2)
        made == Symlink(targetDir, name2)
        \* the outcome once os.MkdirAll(config.MarksDir) has run
        After(err) == [Outcome("create", name2, err)
                          EXCEPT !.marksDirExists = TRUE,
                                 !.marks = IF marksDirExists THEN marks ELSE << >>]
    IN  IF checked # "ok"
        THEN Outcome("create", name2, checked)
        ELSE IF Contains(name2, "/")
        THEN Outcome("create", name2, "InvalidName")
        ELSE IF name2 = ""
        THEN Outcome("create", name2, "InvalidName")
        ELSE IF Occupied(symlinkPath)
        THEN After("AlreadyExists")
        ELSE IF ~made.ok
        THEN After("IOFailure")
        ELSE [After("ok") EXCEPT !.path = targetDir, !.marks = made.marks]

\* A variant of SortedNames with the comparison the other way round.
RECURSIVE SortedNamesDescending(_)
SortedNamesDescending(S) ==
    IF S = {} THEN <<>>
    ELSE LET m == CHOOSE x \in S : \A y \in S \ {x} : StrLess(y, x)
         IN  <<m>> \o SortedNamesDescending(S \ {m})

\* The names of S in Go's string order (sort.Slice by name).
RECURSIVE SortedNames(_)
SortedNames(S) ==
    IF S = {} THEN <<>>
    ELSE LET m == CHOOSE x \in S : \A y \in S \ {x} : StrLess(x, y)
         IN  <<m>> \o SortedNames(S \ {m})

\* One line of listBookmarks for the entry called n.
ListLine(n) ==
    [name |-> n,
     target |-> marks[n].target,                      \* os.Readlink
     broken |-> ~Stat(Join(MarksDir, n), MarksDir).ok]  \* os.Stat fails

\* A variant of listBookmarks that removes the entries it does not show.
ListBookmarksTidy ==
    LET entries == IF marksDirExists THEN DOMAIN marks ELSE {}
        links == {n \in entries : IsSymlink(marks[n])}
        sorted == SortedNames(links)
    IN  [Outcome("list", "", "ok")
            EXCEPT !.listing = [i \in 1..Len(sorted) |-> ListLine(sorted[i])],
                   !.marks = [n \in links |-> marks[n]]]

\* listBookmarks(config): entries that are not symbolic links are skipped.
ListBookmarks ==
    LET entries == IF marksDirExists THEN DOMAIN marks ELSE {}
        links == {n \in entries : IsSymlink(marks[n])}
        sorted == SortedNames(links)
    IN  [Outcome("list", "", "ok")
            EXCEPT !.listing = [i \in 1..Len(sorted) |-> ListLine(sorted[i])]]

\* A variant of DeleteBookmark that reports success without os.Remove.
DeleteBookmarkKeeps(name) ==
    LET symlinkPath == Join(MarksDir, name)
        fileInfo == NodeAt(symlinkPath)
    IN  IF name = ""
        THEN Outcome("delete", name, "NameRequired")
        ELSE IF fileInfo.kind = "none"
        THEN Outcome("delete", name, "NotFound")
        ELSE IF ~IsSymlink(fileInfo)
        THEN Outcome("delete", name, "NotABookmark")
        ELSE Outcome("delete", name, "ok")

\* deleteBookmark(config, name)
DeleteBookmark(name) ==
    LET symlinkPath == Join(MarksDir, name)
        fileInfo == NodeAt(symlinkPath)
    IN  IF name = ""
        THEN Outcome("delete", name, "NameRequired")
        ELSE IF fileInfo.kind = "none"
        THEN Outcome("delete", name, "NotFound")
        ELSE IF ~IsSymlink(fileInfo)
        THEN Outcome("delete", name, "NotABookmark")
        ELSE [Outcome("delete", name, "ok")
                 EXCEPT !.marks = [n \in DOMAIN marks \ {name} |-> marks[n]]]

\* A variant of JumpBookmark that prints the link's text (os.Readlink)
\* instead of the path filepath.EvalSymlinks resolves it to.
JumpBookmarkReadlink(name) ==
    LET symlinkPath == Join(MarksDir, name)
        fileInfo == NodeAt(symlinkPath)
        targetInfo == Stat(fileInfo.target, MarksDir)
    IN  IF name = ""
        THEN Outcome("jump", name, "NameRequired")
        ELSE IF fileInfo.kind = "none"
        THEN Outcome("jump", name, "NotFound")
        ELSE IF ~IsSymlink(fileInfo)
        THEN Outcome("jump", name, "NotABookmark")
        ELSE IF ~targetInfo.ok
        THEN Outcome("jump", name, "BrokenBookmark")
        ELSE IF targetInfo.kind # "dir"
        THEN Outcome("jump", name, "NotADirectory")
        ELSE [Outcome("jump", name, "ok") EXCEPT !.path = fileInfo.target]

\* jumpBookmark(config, name)
JumpBookmark(name) ==
    LET symlinkPath == Join(MarksDir, name)
        fileInfo == NodeAt(symlinkPath)
        targetPath == EvalSymlinks(symlinkPath, MarksDir)
        targetInfo == Stat(targetPath.path, MarksDir)
    IN  IF name = ""
        THEN Outcome("jump", name, "NameRequired")
        ELSE IF fileInfo.kind = "none"
        THEN Outcome("jump", name, "NotFound")
        ELSE IF ~IsSymlink(fileInfo)
        THEN Outcome("jump", name, "NotABookmark")
        ELSE IF ~targetPath.ok
        THEN Outcome("jump", name, "BrokenBookmark")
        ELSE IF ~targetInfo.ok
        THEN Outcome("jump", name, "BrokenBookmark")
        ELSE IF targetInfo.kind # "dir"
        THEN Outcome("jump", name, "NotADirectory")
        ELSE [Outcome("jump", name, "ok") EXCEPT !.path = targetPath.path]

-----------------------------------------------------------------------------
(* Command line inputs.                                                    *)

\* Bookmark names given to create.
NameInputs == {"", "a", "my mark", "b_c", "a/b"}

\* Target paths given to create ("" is no path: the working directory).
TargetInputs == {"", ".", "~/a", "/h/b c", "/h/l", "/h/f", "/h/gone"}

\* Names given to -d and -j.
OpNames == {"", "a", "my_mark", "b_c", "l", "zz"}

\* The working directories a command may be run from: $PWD names a
\* directory, possibly through a link.
WorkDirs == {p \in FsPaths : Stat(p, p).ok /\ Stat(p, p).kind = "dir"}

\* The real directory a create command designates.
Designated(targetPath, pwd) ==
    LET p == IF targetPath = "" \/ targetPath = "." THEN pwd
             ELSE IF HasPrefix(targetPath, "~/")
                  THEN Join(HomeDir, SubSeq(targetPath, 3, Len(targetPath)))
             ELSE targetPath
        r == Walk(p, LinkFuel)
    IN  IF r.ok /\ NodeAt(r.path).kind = "dir" THEN r.path ELSE ""

-----------------------------------------------------------------------------
(* Actions.                                                                *)

Ran(out) ==
    /\ steps < MaxSteps
    /\ steps' = steps + 1
    /\ marks' = out.marks
    /\ marksDirExists' = out.marksDirExists
    /\ last' = [op |-> out.op, name |-> out.name, err |-> out.err,
                path |-> out.path, listing |-> out.listing, dir |-> out.dir]
    /\ fs' = fs
    /\ UNCHANGED shVars

\* mark [name [path]]
Create ==
    \E name \in NameInputs, targetPath \in TargetInputs, pwd \in WorkDirs :
        Ran([CreateBookmark(name, targetPath, pwd)
                EXCEPT !.dir = Designated(targetPath, pwd)])

\* mark -l
List == Ran(ListBookmarks)

\* mark -d name
Delete == \E name \in OpNames : Ran(DeleteBookmark(name))

\* mark -j name
Jump == \E name \in OpNames : Ran(JumpBookmark(name))

EnvStep(op, path) ==
    /\ steps < MaxSteps
    /\ steps' = steps + 1
    /\ last' = [op |-> op, err |-> "ok", path |-> path, listing |-> <<>>,
                \* the bookmark that was just created for the directory at path,
                \* and the target it was stored with
                name |-> IF last.op = "create" /\ last.err = "ok" /\ last.dir = path
                         THEN last.name ELSE "",
                dir |-> IF last.op = "create" /\ last.err = "ok" /\ last.dir = path
                        THEN last.path ELSE ""]

\* Somebody removes a directory, file or link (rm -rf).
EnvRemove ==
    \E p \in FsPaths :
        /\ fs[p].kind # "none"
        /\ fs' = [fs EXCEPT ![p] = NoNode]
        /\ EnvStep("rm", p)
        /\ UNCHANGED <<marks, marksDirExists>>
        /\ UNCHANGED shVars

\* Somebody makes a directory, a file or a link where nothing is.
EnvMake ==
    \E p \in FsPaths, n \in {DirNode, FileNode} \cup {LinkNode(q) : q \in FsPaths} :
        /\ fs[p].kind = "none"
        /\ n.kind = "symlink" => p = "/h/l"
        /\ fs' = [fs EXCEPT ![p] = n]
        /\ EnvStep("make", p)
        /\ UNCHANGED <<marks, marksDirExists>>
        /\ UNCHANGED shVars

\* Somebody puts a regular file or a directory into the marks directory.
EnvPlace ==
    \E name \in {"a", "my_mark"}, n \in {DirNode, FileNode} :
        /\ marksDirExists
        /\ name \notin DOMAIN marks
        /\ marks' = marks @@ (name :> n)
        /\ EnvStep("place", Join(MarksDir, name))
        /\ UNCHANGED <<fs, marksDirExists>>
        /\ UNCHANGED shVars

-----------------------------------------------------------------------------
(* Shell files.  A text file is its lines; nl says whether the last line   *)
(* ends with a newline.                                                    *)

Absent == [exists |-> FALSE, lines |-> <<>>, nl |-> TRUE]

TextFile(lines) == [exists |-> TRUE, lines |-> lines, nl |-> TRUE]

BashScript == ".mark.bash"
ZshScript == ".mark.zsh"
FishScript == ".config/fish/completions/mark.fish"
Bashrc == ".bashrc"
BashProfile == ".bash_profile"
Profile == ".profile"
Zshrc == ".zshrc"
FishConfig == ".config/fish/config.fish"

HomeFiles ==
    {BashScript, ZshScript, FishScript, Bashrc, BashProfile, Profile, Zshrc, FishConfig}

\* The comment that opens the block set-up appends to a start-up file.
MarkerLine == "# mark command completion"

\* sourceLine of SetupBashCompletion, as lines; the text starts with "\n"
BashBlock == <<"", MarkerLine, "source ~/.mark.bash">>

\* sourceLine of SetupZshCompletion (completionScriptPath is absolute)
ZshBlock ==
    <<"", MarkerLine, "autoload -U +X compinit && compinit",
      "source " \o Join(HomeDir, ZshScript)>>

\* os.Executable()
MarkPath == "/usr/local/bin/mark"

\* aliasLines of setupBashAliases and setupZshAliases
AliasBlock ==
    <<"",
      "# mark command aliases",
      "alias marks='" \o MarkPath \o " -l'",
      "alias unmark='" \o MarkPath \o " -d'",
      "function jump() {",
      "    local target=$(" \o MarkPath \o " -j \"$@\")",
      "    if [ $? -eq 0 ] && [ -n \"$target\" ]; then",
      "        cd \"$target\"",
      "    fi",
      "}">>

\* aliasLines of setupFishAliases
FishAliasBlock ==
    <<"",
      "# mark command aliases",
      "alias marks '" \o MarkPath \o " -l'",
      "alias unmark '" \o MarkPath \o " -d'",
      "function jump",
      "    set -l target (" \o MarkPath \o " -j $argv)",
      "    if test $status -eq 0 -a -n \"$target\"",
      "        cd \"$target\"",
      "    end",
      "end">>

\* The completion scripts are fixed texts; one line stands for each.
BashScriptText == <<"#!/bin/bash", "complete -F _mark_complete mark">>
ZshScriptText == <<"#compdef mark", "compdef _mark_complete mark">>
FishScriptText == <<"# mark command completion for fish", "complete -c mark -f">>

\* strings.TrimSpace(line) == ""
IsBlank(line) == \A i \in 1..Len(line) : SubSeq(line, i, i) = " "

\* os.WriteFile
WriteFile(h, name, lines) == [h EXCEPT ![name] = TextFile(lines)]

\* os.Remove
RemoveFile(h, name) == [h EXCEPT ![name] = Absent]

\* os.OpenFile(name, O_WRONLY|O_CREATE|O_APPEND) and WriteString(text): text
\* is given as its lines and starts with "\n", which ends an unfinished last
\* line of the file and otherwise is an empty line.
AppendString(h, name, block) ==
    LET f == h[name]
    IN  [h EXCEPT ![name] =
            TextFile(IF f.exists /\ f.lines # <<>> /\ ~f.nl
                     THEN f.lines \o Tail(block)
                     ELSE f.lines \o block)]

\* detectShell
DetectShell == IF shell = "" THEN "" ELSE Base(shell)

\* CheckFileForCompletionSource, the test of one line
SourcesCompletion(line) ==
    \/ /\ Contains(line, "~/.mark.bash") \/ Contains(line, "~/.mark.zsh")
       /\ Contains(line, "source") \/ Contains(line, ".")
    \/ /\ Contains(line, "mark")
       /\ Contains(line, "complete") \/ Contains(line, "completion")

\* CheckFileForCompletionSource
CheckFileForCompletionSource(h, name) ==
    /\ h[name].exists
    /\ \E i \in 1..Len(h[name].lines) : SourcesCompletion(h[name].lines[i])

\* IsCompletionAlreadySetup
IsCompletionAlreadySetup(h) ==
    IF DetectShell = "bash"
    THEN /\ h[BashScript].exists
         /\ \E name \in {Bashrc, BashProfile, Profile} :
                CheckFileForCompletionSource(h, name)
    ELSE IF DetectShell = "zsh"
    THEN h[ZshScript].exists /\ CheckFileForCompletionSource(h, Zshrc)
    ELSE IF DetectShell = "fish"
    THEN h[FishScript].exists
    ELSE FALSE

\* What the set-up of one feature for one shell reports: the files
\* afterwards, whether it got to its end, and what it printed.
Done(h, done, msgs) == [home |-> h, done |-> done, msgs |-> msgs]

\* A variant of NotSupported that collapses every such shell to "unknown".
NotSupportedGeneric(sh, feature) ==
    "Shell 'unknown' not supported for " \o feature
        \o ". Supported shells: bash, zsh, fish"

\* The message for a shell that is not bash, zsh or fish.
NotSupported(sh, feature) ==
    "Shell '" \o sh \o "' not supported for " \o feature
        \o ". Supported shells: bash, zsh, fish"

\* A variant of SetupBashCompletion that appends to .bashrc before it
\* writes the completion script.
SetupBashCompletionAppendsFirst(h) ==
    IF Bashrc \in denied THEN Done(h, FALSE, {"Error opening .bashrc"})
    ELSE IF BashScript \in denied
    THEN Done(AppendString(h, Bashrc, BashBlock), FALSE,
              {"Error writing bash completion script"})
    ELSE Done(AppendString(WriteFile(h, BashScript, BashScriptText), Bashrc, BashBlock),
              TRUE, {"Bash completion setup complete!"})

\* SetupBashCompletion: it returns at the first write that fails.
SetupBashCompletion(h) ==
    IF BashScript \in denied
    THEN Done(h, FALSE, {"Error writing bash completion script"})
    ELSE IF Bashrc \in denied
    THEN Done(WriteFile(h, BashScript, BashScriptText), FALSE, {"Error opening .bashrc"})
    ELSE Done(AppendString(WriteFile(h, BashScript, BashScriptText), Bashrc, BashBlock),
              TRUE, {"Bash completion setup complete!"})

\* SetupZshCompletion
SetupZshCompletion(h) ==
    IF ZshScript \in denied
    THEN Done(h, FALSE, {"Error writing zsh completion script"})
    ELSE IF Zshrc \in denied
    THEN Done(WriteFile(h, ZshScript, ZshScriptText), FALSE, {"Error opening .zshrc"})
    ELSE Done(AppendString(WriteFile(h, ZshScript, ZshScriptText), Zshrc, ZshBlock),
              TRUE, {"Zsh completion setup complete!"})

\* SetupFishCompletion
SetupFishCompletion(h) ==
    IF FishScript \in denied
    THEN Done(h, FALSE, {"Error writing fish completion script"})
    ELSE Done(WriteFile(h, FishScript, FishScriptText), TRUE,
              {"Fish completion setup complete!"})

\* The switch on the shell that SetupCompletion and RunAutocompleteSetup end
\* with: an unsupported shell gets a message only.
SetupShellCompletion(h) ==
    IF DetectShell = "bash" THEN SetupBashCompletion(h)
    ELSE IF DetectShell = "zsh" THEN SetupZshCompletion(h)
    ELSE IF DetectShell = "fish" THEN SetupFishCompletion(h)
    ELSE Done(h, FALSE, {NotSupported(DetectShell, "completion")})

\* A variant of CleanupLines that drops a line with "mark" and "source" in it
\* wherever it stands, not only after the marker comment.
RECURSIVE CleanupLinesLoose(_, _)
CleanupLinesLoose(lines, skipNext) ==
    IF lines = <<>> THEN <<>>
    ELSE LET line == Head(lines)
         IN  IF Contains(line, "# mark command completion")
             THEN CleanupLinesLoose(Tail(lines), TRUE)
             ELSE IF \/ skipNext /\ (\/ Contains(line, ".mark.bash")
                                     \/ Contains(line, ".mark.zsh")
                                     \/ Contains(line, "completions/bash/mark"))
                     \/ Contains(line, "mark") /\ Contains(line, "source")
             THEN CleanupLinesLoose(Tail(lines), FALSE)
             ELSE IF skipNext /\ IsBlank(line)
             THEN CleanupLinesLoose(Tail(lines), skipNext)
             ELSE <<line>> \o CleanupLinesLoose(Tail(lines), FALSE)

\* cleanupShellConfig, the loop over the lines: the lines that are kept
RECURSIVE CleanupLines(_, _)
CleanupLines(lines, skipNext) ==
    IF lines = <<>> THEN <<>>
    ELSE LET line == Head(lines)
         IN  IF Contains(line, "# mark command completion")
             THEN CleanupLines(Tail(lines), TRUE)
             ELSE IF skipNext /\ (\/ Contains(line, ".mark.bash")
                                  \/ Contains(line, ".mark.zsh")
                                  \/ Contains(line, "completions/bash/mark")
                                  \/ Contains(line, "mark") /\ Contains(line, "source"))
             THEN CleanupLines(Tail(lines), FALSE)
             ELSE IF skipNext /\ IsBlank(line)
             THEN CleanupLines(Tail(lines), skipNext)
             ELSE <<line>> \o CleanupLines(Tail(lines), FALSE)

\* A variant of cleanupShellConfig that writes the file back empty.
CleanupShellConfigEmpties(h, name) ==
    IF ~h[name].exists \/ name \in denied THEN h
    ELSE [h EXCEPT ![name] = TextFile(<<>>)]

\* cleanupShellConfig: a file that cannot be opened, to read or then to
\* write, is left alone; the kept lines are written back, each with a
\* newline.
CleanupShellConfig(h, name) ==
    IF ~h[name].exists \/ name \in denied THEN h
    ELSE [h EXCEPT ![name] = TextFile(CleanupLines(h[name].lines, FALSE))]

\* CleanupExistingCompletion
CleanupExistingCompletion(h) ==
    IF DetectShell = "bash"
    THEN CleanupShellConfig(
             CleanupShellConfig(
                 CleanupShellConfig(RemoveFile(h, BashScript), Bashrc),
                 BashProfile),
             Profile)
    ELSE IF DetectShell = "zsh"
    THEN CleanupShellConfig(RemoveFile(h, ZshScript), Zshrc)
    ELSE IF DetectShell = "fish"
    THEN RemoveFile(h, FishScript)
    ELSE h

\* What a set-up step reports: the files afterwards, the features it
\* prompted for, the features it installed, and what it printed.
Step(h, prompts, installed, msgs) ==
    [home |-> h, prompts |-> prompts, installed |-> installed, msgs |-> msgs]

Yes(response) == response = "y" \/ response = "yes"

Supported == {"bash", "zsh", "fish"}

\* SetupCompletion(reader); response is the answer read, trimmed and in
\* lower case
SetupCompletion(h, response) ==
    IF IsCompletionAlreadySetup(h) THEN Step(h, {}, {}, {})
    ELSE IF ~Yes(response)
    THEN Step(h, {"completion"}, {}, {"Skipping completion setup."})
    ELSE IF DetectShell = ""
    THEN Step(h, {"completion"}, {},
              {"Could not detect shell type. Skipping completion setup."})
    ELSE LET d == SetupShellCompletion(h)
         IN  Step(d.home, {"completion"},
                  IF d.done THEN {"completion"} ELSE {}, d.msgs)

\* RunAutocompleteSetup
RunAutocompleteSetup(h, response) ==
    IF ~Yes(response)
    THEN Step(h, {"completion"}, {}, {"Autocompletion setup cancelled."})
    ELSE IF DetectShell = ""
    THEN Step(h, {"completion"}, {},
              {"Could not detect shell type. Skipping completion setup.",
               "Supported shells: bash, zsh, fish"})
    ELSE LET d == SetupShellCompletion(CleanupExistingCompletion(h))
         IN  IF DetectShell \notin Supported
             THEN Step(d.home, {"completion"}, {"cleanup"}, d.msgs)
             ELSE Step(d.home, {"completion"},
                       {"cleanup"} \cup (IF d.done THEN {"completion"} ELSE {}),
                       d.msgs \cup {"Autocompletion setup complete!"})

\* areAliasesAlreadySetup, the test of one start-up file
HasAliases(f, marksAlias, unmarkAlias) ==
    /\ f.exists
    /\ \E i \in 1..Len(f.lines) : Contains(f.lines[i], marksAlias)
    /\ \E i \in 1..Len(f.lines) : Contains(f.lines[i], unmarkAlias)
    /\ \E i \in 1..Len(f.lines) : Contains(f.lines[i], "function jump")

\* areAliasesAlreadySetup
AreAliasesAlreadySetup(h) ==
    IF DetectShell = "bash" THEN HasAliases(h[Bashrc], "alias marks=", "alias unmark=")
    ELSE IF DetectShell = "zsh" THEN HasAliases(h[Zshrc], "alias marks=", "alias unmark=")
    ELSE IF DetectShell = "fish"
         THEN HasAliases(h[FishConfig], "alias marks ", "alias unmark ")
    ELSE FALSE

\* setupBashAliases, setupZshAliases, setupFishAliases, for the file each
\* appends to
AppendAliases(h, name, block, done) ==
    IF name \in denied THEN Done(h, FALSE, {"Error opening " \o name})
    ELSE Done(AppendString(h, name, block), TRUE, {done})

\* The switch on the shell that setupAliases ends with
SetupShellAliases(h) ==
    IF DetectShell = "bash"
    THEN AppendAliases(h, Bashrc, AliasBlock, "Bash aliases setup complete!")
    ELSE IF DetectShell = "zsh"
    THEN AppendAliases(h, Zshrc, AliasBlock, "Zsh aliases setup complete!")
    ELSE IF DetectShell = "fish"
    THEN AppendAliases(h, FishConfig, FishAliasBlock, "Fish aliases setup complete!")
    ELSE Done(h, FALSE, {NotSupported(DetectShell, "aliases")})

\* setupAliases(reader)
SetupAliases(h, response) ==
    IF AreAliasesAlreadySetup(h) THEN Step(h, {}, {}, {})
    ELSE IF ~Yes(response)
    THEN Step(h, {"aliases"}, {}, {"Skipping alias setup."})
    ELSE IF DetectShell = ""
    THEN Step(h, {"aliases"}, {}, {"Could not detect shell type. Skipping alias setup."})
    ELSE LET d == SetupShellAliases(h)
         IN  Step(d.home, {"aliases"}, IF d.done THEN {"aliases"} ELSE {}, d.msgs)

\* RunAliasSetup
RunAliasSetup(h, response) ==
    IF AreAliasesAlreadySetup(h) THEN Step(h, {}, {}, {"Aliases are already set up!"})
    ELSE SetupAliases(h, response)

\* runSetup, its two shell steps one after the other
RunSetupSteps(h, completionResponse, aliasResponse) ==
    LET c == SetupCompletion(h, completionResponse)
        a == SetupAliases(c.home, aliasResponse)
    IN  Step(a.home, c.prompts \cup a.prompts, c.installed \cup a.installed,
             c.msgs \cup a.msgs)

\* saveConfig: the one line of ~/.mark, the path shortened with "~"
SavedConfig(marksDir) ==
    TextFile(<<"marksdir=" \o
                  (IF HasPrefix(marksDir, HomeDir)
                   THEN "~" \o SubSeq(marksDir, Len(HomeDir) + 1, Len(marksDir))
                   ELSE marksDir)>>)

\* strings.TrimSpace
RECURSIVE TrimSpace(_)
TrimSpace(s) ==
    IF Len(s) > 0 /\ SubSeq(s, 1, 1) = " " THEN TrimSpace(SubSeq(s, 2, Len(s)))
    ELSE IF Len(s) > 0 /\ SubSeq(s, Len(s), Len(s)) = " "
         THEN TrimSpace(SubSeq(s, 1, Len(s) - 1))
    ELSE s

\* The position of the first "=" of s from i on, 0 when there is none.
RECURSIVE FirstEquals(_, _)
FirstEquals(s, i) ==
    IF i > Len(s) THEN 0
    ELSE IF SubSeq(s, i, i) = "=" THEN i ELSE FirstEquals(s, i + 1)

\* The loop of loadOrCreateConfig and runSetup over the lines of ~/.mark:
\* the marks directory the last marksdir= line gives, "" when none does.
RECURSIVE ConfigMarksDir(_, _)
ConfigMarksDir(lines, found) ==
    IF lines = <<>> THEN found
    ELSE LET line == Head(lines)
             eq == FirstEquals(line, 1)
             key == TrimSpace(SubSeq(line, 1, eq - 1))
             value == TrimSpace(SubSeq(line, eq + 1, Len(line)))
         IN  IF eq # 0 /\ key = "marksdir"
             THEN ConfigMarksDir(Tail(lines), ExpandPath(value, HomeDir))
             ELSE ConfigMarksDir(Tail(lines), found)

\* The configuration is there and names a marks directory.
ConfigValid == config.exists /\ ConfigMarksDir(config.lines, "") # ""

NoFlow == [op |-> "none", prompts |-> {}, installed |-> {}, msgs |-> {}, exit |-> 0]

\* The answers to a yes/no prompt, trimmed and in lower case.
Responses == {"y", "n", ""}

Flowed(op, r) ==
    /\ steps < MaxFlows
    /\ steps' = steps + 1
    /\ home' = r.home
    /\ flow' = [op |-> op, prompts |-> r.prompts, installed |-> r.installed,
                msgs |-> r.msgs, exit |-> 0]
    /\ UNCHANGED <<shell, fs, marks, last, denied>>

\* runSetup, on the first run or for mark --config, with the prompt for the
\* marks directory answered by an empty line: the directory of the
\* configuration, or ~/.marks, is kept, made and saved.
RunSetup ==
    \E completionResponse \in Responses, aliasResponse \in Responses :
        LET current == IF config.exists THEN ConfigMarksDir(config.lines, "") ELSE ""
            defaultDir == IF current = "" THEN "~/.marks" ELSE current
        IN  /\ Flowed("setup", RunSetupSteps(home, completionResponse, aliasResponse))
            /\ marksDirExists' = TRUE
            /\ config' = SavedConfig(ExpandPath(defaultDir, HomeDir))

\* mark --autocomplete
Autocomplete ==
    \E response \in Responses :
        /\ ConfigValid
        /\ Flowed("autocomplete", RunAutocompleteSetup(home, response))
        /\ UNCHANGED <<config, marksDirExists>>

\* mark --alias
Alias ==
    \E response \in Responses :
        /\ ConfigValid
        /\ Flowed("alias", RunAliasSetup(home, response))
        /\ UNCHANGED <<config, marksDirExists>>

-----------------------------------------------------------------------------
(* The start-up files a user may have when set-up runs.                    *)

UserPathLine == "export PATH=$PATH:/usr/bin"

UserSourceLine == "source ~/.bookmarks.sh"

\* A start-up file nothing of mark was ever written to.
FreshFiles ==
    {Absent,
     TextFile(<<UserPathLine>>),
     [exists |-> TRUE, lines |-> <<UserPathLine, "", UserSourceLine>>, nl |-> FALSE]}

\* A start-up file that got the block earlier, and lines of the user since.
Continued(block) == TextFile(<<UserPathLine>> \o block \o <<UserSourceLine>>)

\* The block an earlier version appended to .bashrc.
LegacyBlock == <<MarkerLine, "source /usr/share/mark/completions/bash/mark">>

NoHome == [name \in HomeFiles |-> Absent]

\* The home directories set-up may find, for each value of $SHELL.
InitHomes(sh) ==
    IF sh = "/bin/bash"
    THEN {[NoHome EXCEPT ![Bashrc] = f, ![BashProfile] = g] :
              f \in FreshFiles \cup {Continued(LegacyBlock)},
              g \in {Absent, TextFile(<<UserSourceLine>>)}}
         \cup {[NoHome EXCEPT ![Bashrc] = Continued(BashBlock),
                              ![BashScript] = TextFile(BashScriptText)]}
    ELSE IF sh = "/usr/bin/zsh"
    THEN {[NoHome EXCEPT ![Zshrc] = f] : f \in FreshFiles}
         \cup {[NoHome EXCEPT ![Zshrc] = Continued(ZshBlock),
                              ![ZshScript] = TextFile(ZshScriptText)]}
    ELSE IF sh = "/usr/bin/fish"
    THEN {[NoHome EXCEPT ![FishConfig] = f] : f \in FreshFiles}
    ELSE {NoHome}

\* The files that are read-only, or in a read-only directory, when set-up
\* runs: none, the completion script, or the start-up file.
DeniedSets(sh) ==
    IF sh = "bash" THEN {{}, {BashScript}, {Bashrc}}
    ELSE IF sh = "zsh" THEN {{}, {ZshScript}, {Zshrc}}
    ELSE IF sh = "fish" THEN {{}, {FishScript}, {FishConfig}}
    ELSE {{}}

Init ==
    /\ fs = [p \in FsPaths |->
                IF p = "/h/l" THEN LinkNode("/h/a")
                ELSE IF p = "/h/f" THEN FileNode ELSE DirNode]
    /\ marks = << >>
    /\ marksDirExists \in BOOLEAN
    /\ last = [op |-> "none", name |-> "", err |-> "ok", path |-> "",
               listing |-> <<>>, dir |-> ""]
    /\ steps = 0
    /\ shell = "/bin/bash"
    /\ home = NoHome
    /\ config = SavedConfig(MarksDir)
    /\ flow = NoFlow
    /\ denied = {}

Next ==
    \/ Create
    \/ List
    \/ Delete
    \/ Jump
    \/ EnvRemove
    \/ EnvMake
    \/ EnvPlace

Spec == Init /\ [][Next]_vars

\* Set-up runs, from every home directory and shell.
InitShell ==
    /\ fs = [p \in FsPaths |->
                IF p = "/h/l" THEN LinkNode("/h/a")
                ELSE IF p = "/h/f" THEN FileNode ELSE DirNode]
    /\ marks = << >>
    /\ config \in {Absent, SavedConfig(MarksDir)}
    /\ marksDirExists = config.exists
    /\ last = [op |-> "none", name |-> "", err |-> "ok", path |-> "",
               listing |-> <<>>, dir |-> ""]
    /\ steps = 0
    /\ shell \in {"/bin/bash", "/usr/bin/zsh", "/usr/bin/fish", "/bin/tcsh", ""}
    /\ home \in InitHomes(shell)
    /\ flow = NoFlow
    /\ denied \in DeniedSets(DetectShell)

NextShell ==
    \/ RunSetup
    \/ Autocomplete
    \/ Alias

SpecShell == InitShell /\ [][NextShell]_vars

-----------------------------------------------------------------------------
(* The unified resource file: one file per shell that holds the aliases    *)
(* and the completion function, with a header that names the features.     *)

BashRCFile == ".mark_bash_rc"
ZshRCFile == ".mark_zsh_rc"
FishRCFile == ".config/fish/conf.d/mark.fish"

RCHomeFiles == HomeFiles \cup {BashRCFile, ZshRCFile, FishRCFile}

\* getRCFilePath(shell): "" for a shell that is not supported
GetRCFilePath(sh) ==
    IF sh = "bash" THEN BashRCFile
    ELSE IF sh = "zsh" THEN ZshRCFile
    ELSE IF sh = "fish" THEN FishRCFile
    ELSE ""

\* A variant of FeatureLine that names one feature at most.
FeatureLineOneOnly(includeAliases, includeCompletions) ==
    "# Features:" \o (IF includeAliases THEN " aliases"
                      ELSE IF includeCompletions THEN " completions" ELSE "")

\* The feature line of the header: the enabled features, aliases first.
FeatureLine(includeAliases, includeCompletions) ==
    "# Features:" \o (IF includeAliases THEN " aliases" ELSE "")
                  \o (IF includeCompletions THEN " completions" ELSE "")

\* generateBashRC, generateZshRC, generateFishRC: the lines of the file
GenerateRC(sh, markPath, includeAliases, includeCompletions) ==
    (IF sh = "bash" THEN <<"#!/bin/bash">>
     ELSE IF sh = "zsh" THEN <<"#!/bin/zsh">> ELSE <<>>)
    \o <<"# mark shell configuration", "# Generated by mark",
         FeatureLine(includeAliases, includeCompletions)>>
    \o (IF ~includeAliases THEN <<>>
        ELSE IF sh = "fish"
        THEN <<"alias marks '" \o markPath \o " -l'",
               "alias unmark '" \o markPath \o " -d'",
               "function jump">>
        ELSE <<"alias marks='" \o markPath \o " -l'",
               "alias unmark='" \o markPath \o " -d'",
               "function jump() {">>)
    \o (IF ~includeCompletions THEN <<>>
        ELSE IF sh = "bash"
        THEN <<"_mark_complete() {", "complete -F _mark_complete mark marks unmark jump">>
        ELSE IF sh = "zsh"
        THEN <<"autoload -U +X compinit && compinit", "_mark_complete() {",
               "compdef _mark_complete mark">>
        ELSE <<"function __fish_mark_list_bookmarks", "complete -c mark">>)

\* getEnabledFeatures(shell): <<aliases, completions>> read from the feature
\* line of the shell's file; a missing file or header gives neither.
GetEnabledFeatures(h, sh) ==
    LET name == GetRCFilePath(sh)
        lines == IF name # "" /\ h[name].exists THEN h[name].lines ELSE <<>>
        header == {i \in 1..Len(lines) : HasPrefix(lines[i], "# Features:")}
    IN  <<\E i \in header : Contains(lines[i], "aliases"),
          \E i \in header : Contains(lines[i], "completions")>>

\* What a step on the resource file reports: the files afterwards and
\* whether it failed.
RCStep(h, err) == [home |-> h, err |-> err]

\* writeShellRC(shell, includeAliases, includeCompletions): the file is
\* written whole; a shell that is not supported is an error.
WriteShellRC(h, sh, includeAliases, includeCompletions) ==
    IF GetRCFilePath(sh) = "" THEN RCStep(h, "UnsupportedShell")
    ELSE RCStep(WriteFile(h, GetRCFilePath(sh),
                          GenerateRC(sh, MarkPath, includeAliases, includeCompletions)),
                "ok")

\* The comment that opens the block ensureSourceLine appends.
IntegrationMarker == "# mark shell integration"

\* The block ensureSourceLine appends to the start-up file.
SourceBlock(sh) ==
    <<"", IntegrationMarker,
      "[ -f ~/" \o GetRCFilePath(sh) \o " ] && source ~/" \o GetRCFilePath(sh)>>

\* isSourceLinePresent(file): some line names a resource file of mark or is
\* the marker; a missing file has none.
IsSourceLinePresent(h, name) ==
    /\ h[name].exists
    /\ \E i \in 1..Len(h[name].lines) :
           \/ Contains(h[name].lines[i], BashRCFile)
           \/ Contains(h[name].lines[i], ZshRCFile)
           \/ Contains(h[name].lines[i], IntegrationMarker)

\* ensureSourceLine(shell): the block is appended to .bashrc or .zshrc
\* unless a source line is there; nothing is done for fish.
EnsureSourceLine(h, sh) ==
    IF sh = "fish" THEN RCStep(h, "ok")
    ELSE IF sh \notin {"bash", "zsh"} THEN RCStep(h, "UnsupportedShell")
    ELSE LET name == IF sh = "bash" THEN Bashrc ELSE Zshrc
         IN  IF IsSourceLinePresent(h, name) THEN RCStep(h, "ok")
             ELSE RCStep(AppendString(h, name, SourceBlock(sh)), "ok")

NoRC == [name \in RCHomeFiles |-> Absent]

\* What was done to the resource file last.
RCDone(op, r, includeAliases, includeCompletions) ==
    /\ steps < MaxFlows
    /\ steps' = steps + 1
    /\ home' = r.home
    /\ flow' = [op |-> op, err |-> r.err, aliases |-> includeAliases,
                completions |-> includeCompletions]
    /\ UNCHANGED <<shell, config, fs, marks, marksDirExists, last, denied>>

\* writeShellRC for the detected shell
WriteRC ==
    \E includeAliases \in BOOLEAN, includeCompletions \in BOOLEAN :
        RCDone("writeRC",
               WriteShellRC(home, DetectShell, includeAliases, includeCompletions),
               includeAliases, includeCompletions)

\* ensureSourceLine for the detected shell
EnsureSource == RCDone("ensureSource", EnsureSourceLine(home, DetectShell), FALSE, FALSE)

\* The user removes the resource file, or writes one of their own without a
\* feature line.
EditRC ==
    \E f \in {Absent, TextFile(<<"# my aliases and completions">>)} :
        /\ GetRCFilePath(DetectShell) # ""
        /\ RCDone("edit", RCStep([home EXCEPT ![GetRCFilePath(DetectShell)] = f], "ok"),
                  FALSE, FALSE)

InitRC ==
    /\ fs = [p \in FsPaths |->
                IF p = "/h/l" THEN LinkNode("/h/a")
                ELSE IF p = "/h/f" THEN FileNode ELSE DirNode]
    /\ marks = << >>
    /\ config = SavedConfig(MarksDir)
    /\ marksDirExists = TRUE
    /\ last = [op |-> "none", name |-> "", err |-> "ok", path |-> "",
               listing |-> <<>>, dir |-> ""]
    /\ steps = 0
    /\ shell \in {"/bin/bash", "/usr/bin/zsh", "/usr/bin/fish", "/bin/tcsh"}
    /\ \E f \in FreshFiles :
           home = [NoRC EXCEPT ![Bashrc] = f, ![Zshrc] = f, ![FishConfig] = f]
    /\ flow = [op |-> "none", err |-> "ok", aliases |-> FALSE, completions |-> FALSE]
    /\ denied = {}

NextRC ==
    \/ WriteRC
    \/ EnsureSource
    \/ EditRC

SpecRC == InitRC /\ [][NextRC]_vars

-----------------------------------------------------------------------------
(* Saving and loading the configuration.                                   *)

\* The marks directories saveConfig may be given: absolute paths, in the
\* home directory and outside of it.
ConfigDirs == {"/h/.marks", "/h/a", "/h/l", "/h", "/h2/m", "/tmp/m"}

\* The answers to the prompt of runSetup for the marks directory.
SetupAnswers == {"", "~/.marks", "/h/a", "/h/f", "/h2/m"}

\* What the user may leave in ~/.mark.
EditedConfigs ==
    {Absent, TextFile(<<"# mark">>), TextFile(<<"marksdir=">>),
     TextFile(<<" marksdir = ~/.marks ">>)}

\* os.MkdirAll(path): a directory that is there is fine, a file or a
\* dangling link in its place is an error, anything else is made.
MkdirAllOk(path) ==
    LET st == Stat(path, HomeDir)
    IN  IF st.ok THEN st.kind = "dir"
        ELSE ~IsAbs(path) \/ NodeAt(path).kind = "none"

\* runSetup with the prompts answered, from the home files h and the
\* ~/.mark file cfg: the files afterwards, the configuration it returns and
\* the exit code when it ends the process.
RunSetupFrom(h, cfg, answer, completionResponse, aliasResponse) ==
    LET current == IF cfg.exists THEN ConfigMarksDir(cfg.lines, "") ELSE ""
        defaultDir == IF current = "" THEN "~/.marks" ELSE current
        marksDir == ExpandPath(IF TrimSpace(answer) = "" THEN defaultDir
                               ELSE TrimSpace(answer), HomeDir)
    IN  IF ~MkdirAllOk(marksDir)
        THEN [home |-> h, config |-> cfg, marksDir |-> "", exit |-> 1]
        ELSE [home |-> RunSetupSteps(h, completionResponse, aliasResponse).home,
              config |-> SavedConfig(marksDir), marksDir |-> marksDir, exit |-> 0]

\* runSetup for the ~/.mark that is there
RunSetupWith(h, answer, completionResponse, aliasResponse) ==
    RunSetupFrom(h, config, answer, completionResponse, aliasResponse)

\* A variant of loadOrCreateConfig that gives up on a missing or invalid
\* ~/.mark.
LoadOrCreateConfigStrict(h, answer, completionResponse, aliasResponse) ==
    IF ConfigValid
    THEN [home |-> h, config |-> config, setup |-> FALSE, exit |-> 0,
          marksDir |-> ConfigMarksDir(config.lines, "")]
    ELSE [home |-> h, config |-> config, setup |-> FALSE, exit |-> 1,
          marksDir |-> ""]

\* loadOrCreateConfig: the configuration of ~/.mark, or of runSetup when the
\* file is missing or names no marks directory.
LoadOrCreateConfig(h, answer, completionResponse, aliasResponse) ==
    IF ConfigValid
    THEN [home |-> h, config |-> config, setup |-> FALSE, exit |-> 0,
          marksDir |-> ConfigMarksDir(config.lines, "")]
    ELSE LET r == RunSetupWith(h, answer, completionResponse, aliasResponse)
         IN  [home |-> r.home, config |-> r.config, setup |-> TRUE, exit |-> r.exit,
              marksDir |-> r.marksDir]

\* What was done to the configuration last.
ConfigDone(op, setup, dir, exit) ==
    /\ steps < MaxFlows
    /\ steps' = steps + 1
    /\ flow' = [op |-> op, setup |-> setup, dir |-> dir, exit |-> exit]
    /\ UNCHANGED <<shell, fs, marks, last, denied>>

\* saveConfig(config)
SaveConfig ==
    \E dir \in ConfigDirs :
        /\ ConfigDone("save", FALSE, dir, 0)
        /\ config' = SavedConfig(dir)
        /\ UNCHANGED <<home, marksDirExists>>

\* A command starts: loadOrCreateConfig
LoadConfig ==
    \E answer \in SetupAnswers, completionResponse \in Responses,
       aliasResponse \in Responses :
        LET r == LoadOrCreateConfig(home, answer, completionResponse, aliasResponse)
        IN  /\ ConfigDone("load", r.setup, r.marksDir, r.exit)
            /\ config' = r.config
            /\ home' = r.home
            /\ marksDirExists' =
                   (marksDirExists \/ (r.setup /\ r.exit = 0 /\ r.marksDir = MarksDir))

\* The user removes or rewrites ~/.mark.
EditConfig ==
    \E f \in EditedConfigs :
        /\ ConfigDone("edit", FALSE, "", 0)
        /\ config' = f
        /\ UNCHANGED <<home, marksDirExists>>

InitConfig ==
    /\ fs = [p \in FsPaths |->
                IF p = "/h/l" THEN LinkNode("/h/a")
                ELSE IF p = "/h/f" THEN FileNode ELSE DirNode]
    /\ marks = << >>
    /\ config \in {SavedConfig(MarksDir)} \cup EditedConfigs
    /\ marksDirExists = (config = SavedConfig(MarksDir))
    /\ last = [op |-> "none", name |-> "", err |-> "ok", path |-> "",
               listing |-> <<>>, dir |-> ""]
    /\ steps = 0
    /\ shell \in {"/bin/bash", "/bin/tcsh"}
    /\ home = NoHome
    /\ flow = [op |-> "none", setup |-> FALSE, dir |-> "", exit |-> 0]
    /\ denied = {}

NextConfig ==
    \/ SaveConfig
    \/ LoadConfig
    \/ EditConfig

SpecConfig == InitConfig /\ [][NextConfig]_vars

-----------------------------------------------------------------------------
(* One invocation of mark: parseFlags and main.                            *)

NoFlags ==
    [List |-> FALSE, Delete |-> "", Jump |-> "", Config |-> FALSE,
     Autocomplete |-> FALSE, Alias |-> FALSE, Help |-> FALSE, Version |-> FALSE]

\* parseFlags, the loop over the characters of the short flags args[i]:
\* the index of the last argument used, the flags, and the message when
\* it ends the process with exit code 1.
RECURSIVE ParseChars(_, _, _, _)
ParseChars(args, i, j, flags) ==
    LET flagChars == SubSeq(args[i], 2, Len(args[i]))
        char == SubSeq(flagChars, j, j)
        Stop(msg) == [i |-> i, flags |-> flags, err |-> msg]
    IN  IF j > Len(flagChars) THEN [i |-> i, flags |-> flags, err |-> ""]
        ELSE IF char = "v" THEN ParseChars(args, i, j + 1, [flags EXCEPT !.Version = TRUE])
        ELSE IF char = "h" THEN ParseChars(args, i, j + 1, [flags EXCEPT !.Help = TRUE])
        ELSE IF char = "l" THEN ParseChars(args, i, j + 1, [flags EXCEPT !.List = TRUE])
        ELSE IF char = "d"
        THEN IF j # Len(flagChars)
             THEN Stop("Error: -d flag must be the last in a flag chain")
             ELSE IF i + 1 > Len(args)
             THEN Stop("Error: -d flag requires a bookmark name")
             ELSE [i |-> i + 1, flags |-> [flags EXCEPT !.Delete = args[i + 1]], err |-> ""]
        ELSE IF char = "j"
        THEN IF j # Len(flagChars)
             THEN Stop("Error: -j flag must be the last in a flag chain")
             ELSE IF i + 1 > Len(args)
             THEN Stop("Error: -j flag requires a bookmark name")
             ELSE [i |-> i + 1, flags |-> [flags EXCEPT !.Jump = args[i + 1]], err |-> ""]
        ELSE Stop("Error: unknown flag -" \o char)

\* parseFlags, the loop over the arguments from args[i] on
RECURSIVE ParseArgs(_, _, _, _)
ParseArgs(args, i, flags, remainingArgs) ==
    IF i > Len(args) THEN [flags |-> flags, args |-> remainingArgs, err |-> ""]
    ELSE LET arg == args[i]
         IN  IF arg = "--help"
             THEN ParseArgs(args, i + 1, [flags EXCEPT !.Help = TRUE], remainingArgs)
             ELSE IF arg = "--version"
             THEN ParseArgs(args, i + 1, [flags EXCEPT !.Version = TRUE], remainingArgs)
             ELSE IF arg = "--config"
             THEN ParseArgs(args, i + 1, [flags EXCEPT !.Config = TRUE], remainingArgs)
             ELSE IF arg = "--autocomplete"
             THEN ParseArgs(args, i + 1, [flags EXCEPT !.Autocomplete = TRUE], remainingArgs)
             ELSE IF arg = "--alias"
             THEN ParseArgs(args, i + 1, [flags EXCEPT !.Alias = TRUE], remainingArgs)
             ELSE IF HasPrefix(arg, "--")
             THEN ParseArgs(args, i + 1, flags, Append(remainingArgs, arg))
             ELSE IF HasPrefix(arg, "-") /\ Len(arg) > 1
             THEN LET c == ParseChars(args, i, 1, flags)
                  IN  IF c.err # ""
                      THEN [flags |-> c.flags, args |-> remainingArgs, err |-> c.err]
                      ELSE ParseArgs(args, c.i + 1, c.flags, remainingArgs)
             ELSE ParseArgs(args, i + 1, flags, Append(remainingArgs, arg))

\* parseFlags(args)
ParseFlags(args) == ParseArgs(args, 1, NoFlags, <<>>)

\* What a bookmark command writes to standard error before os.Exit(1).
ErrorMessage(out, targetPath) ==
    IF out.err = "ok" THEN <<>>
    ELSE IF out.op = "create"
    THEN (IF out.err = "NotFound"
          THEN <<"Error: Target directory does not exist: " \o targetPath>>
          ELSE IF out.err = "NotADirectory"
          THEN <<"Error: Target path is not a directory: " \o targetPath>>
          ELSE IF out.err = "InvalidName"
          THEN (IF out.name = "" THEN <<"Error: Bookmark name cannot be empty">>
                ELSE <<"Error: Bookmark name cannot contain path separators">>)
          ELSE IF out.err = "AlreadyExists"
          THEN <<"Error: Bookmark '" \o out.name \o "' already exists. Use 'mark -d "
                     \o out.name \o "' to remove it first.">>
          ELSE <<"Error creating bookmark">>)
    ELSE IF out.err = "NameRequired"
    THEN <<"Error: Bookmark name required for -" \o (IF out.op = "delete" THEN "d" ELSE "j")
               \o " flag">>
    ELSE IF out.err = "NotFound"
    THEN <<"Error: Bookmark '" \o out.name \o "' does not exist">>
    ELSE IF out.err = "NotABookmark"
    THEN <<"Error: '" \o out.name \o "' is not a bookmark (not a symlink)">>
    ELSE IF out.err = "BrokenBookmark"
    THEN <<"Error: Bookmark '" \o out.name \o "' points to non-existent directory">>
    ELSE <<"Error: Bookmark '" \o out.name \o "' points to a file, not a directory">>

\* What a bookmark command writes to standard output (the check mark and
\* the colours of the lines are left out).
Printed(out) ==
    IF out.err # "ok" THEN <<>>
    ELSE IF out.op = "create"
    THEN <<"Created bookmark '" \o out.name \o "' -> " \o out.path>>
    ELSE IF out.op = "delete"
    THEN <<"Removed bookmark '" \o out.name \o "'">>
    ELSE IF out.op = "jump"
    THEN <<out.path>>
    ELSE IF ~out.marksDirExists \/ DOMAIN out.marks = {}
    THEN <<"No bookmarks found. Create one with 'mark <name>'">>
    ELSE [i \in 1..Len(out.listing) |->
             "  " \o out.listing[i].name \o " -> "
                  \o (IF out.listing[i].broken THEN "[broken] " ELSE "")
                  \o out.listing[i].target]

NoOutcome == Outcome("none", "", "ok")

\* What one invocation did: the command main came to, the exit code, the
\* lines on standard output and standard error, how often runSetup ran,
\* and the files afterwards.
Invoked(cmd, exit, stdout, stderr, setups, h, cfg, made, out) ==
    [cmd |-> cmd, exit |-> exit, stdout |-> stdout, stderr |-> stderr,
     setups |-> setups, home |-> h, config |-> cfg, made |-> made, out |-> out]

\* The first prompt of runSetup
SetupPrompt(cfg) ==
    LET current == IF cfg.exists THEN ConfigMarksDir(cfg.lines, "") ELSE ""
    IN  <<"Where should bookmarks be stored ("
              \o (IF current = "" THEN "~/.marks" ELSE current) \o "): ">>

SetupError == <<"Error creating marks directory">>

\* main for a bookmark command
BookmarkCommand(flags, args, pwd) ==
    IF flags.List THEN ListBookmarks
    ELSE IF flags.Delete # "" THEN DeleteBookmark(flags.Delete)
    ELSE IF flags.Jump # "" THEN JumpBookmark(flags.Jump)
    ELSE IF Len(args) = 0 THEN CreateBookmark("", "", pwd)
    ELSE IF Len(args) = 1 THEN CreateBookmark(args[1], "", pwd)
    ELSE CreateBookmark(args[1], args[2], pwd)

\* main, once parseFlags has returned p, loadOrCreateConfig has returned l
\* and, for a bookmark command, the command has come to out; answer, c2
\* and a2 are the answers to the prompts of the flow the flags ask for.
Main(p, l, out, answer, c2, a2) ==
    LET loaded == IF l.setup THEN 1 ELSE 0
        before == IF l.setup THEN SetupPrompt(config) ELSE <<>>
        again == RunSetupFrom(l.home, l.config, answer, c2, a2)
    IN  IF p.err # ""
        THEN Invoked("usage", 1, <<>>, <<p.err>>, 0, home, config, FALSE, NoOutcome)
        ELSE IF p.flags.Version
        THEN Invoked("version", 0, <<"dev">>, <<>>, 0, home, config, FALSE, NoOutcome)
        ELSE IF p.flags.Help
        THEN Invoked("help", 0, <<"mark - A minimalist CLI bookmark tool">>, <<>>, 0,
                     home, config, FALSE, NoOutcome)
        ELSE IF l.exit # 0
        THEN Invoked("setup", 1, before, SetupError, 1, home, config, FALSE, NoOutcome)
        ELSE IF l.setup /\ ~config.exists
        THEN Invoked("setup", 0, before, <<>>, 1, l.home, l.config, TRUE, NoOutcome)
        ELSE IF p.flags.Config
        THEN (IF again.exit # 0
              THEN Invoked("config", 1, before \o SetupPrompt(l.config), SetupError,
                           loaded + 1, l.home, l.config, l.setup, NoOutcome)
              ELSE Invoked("config", 0, before \o SetupPrompt(l.config), <<>>,
                           loaded + 1, again.home, again.config, TRUE, NoOutcome))
        ELSE IF p.flags.Autocomplete
        THEN Invoked("autocomplete", 0, before, <<>>, loaded,
                     RunAutocompleteSetup(l.home, c2).home, l.config, l.setup, NoOutcome)
        ELSE IF p.flags.Alias
        THEN Invoked("alias", 0, before, <<>>, loaded,
                     RunAliasSetup(l.home, a2).home, l.config, l.setup, NoOutcome)
        ELSE Invoked(out.op, IF out.err = "ok" THEN 0 ELSE 1,
                     before \o Printed(out),
                     ErrorMessage(out, IF Len(p.args) >= 2 THEN p.args[2] ELSE ""),
                     loaded, l.home, l.config, l.setup, out)

\* The command lines tried.
MainArgs ==
    {<<>>, <<"a">>, <<"b_c", "/h/b c">>, <<"a", "/h/f">>,
     <<"-l">>, <<"-d", "a">>, <<"-d", "">>, <<"-d">>, <<"-j", "a">>, <<"-j", "">>,
     <<"-j", "zz">>, <<"-ld", "a">>, <<"-dl", "a">>, <<"-x">>, <<"-h">>, <<"--version">>,
     <<"--config">>, <<"--configure">>, <<"--autocomplete">>, <<"--alias">>,
     <<"-l", "--config">>}

\* The working directory of the invocations.
MainDirs == {"/h/a"}

\* The answers to the marks directory prompt that keep ~/.marks.
MainAnswers == {"", "~/.marks"}

MainResponses == {"n", "y"}

\* mark <args>, with every yes/no prompt answered alike
Invoke ==
    \E osArgs \in MainArgs, pwd \in MainDirs, answer \in MainAnswers,
       response \in MainResponses :
        \E p \in {ParseFlags(osArgs)},
           l \in {LoadOrCreateConfig(home, answer, response, response)} :
        \E out \in {BookmarkCommand(p.flags, p.args, pwd)} :
        \E r \in {Main(p, l, out, answer, response, response)} :
            /\ steps < MaxInvocations
            /\ steps' = steps + 1
            /\ flow' = [op |-> "main", args |-> osArgs, pwd |-> pwd, cmd |-> r.cmd,
                        exit |-> r.exit, stdout |-> r.stdout, stderr |-> r.stderr,
                        setups |-> r.setups]
            /\ last' = [op |-> r.out.op, name |-> r.out.name, err |-> r.out.err,
                        path |-> r.out.path, listing |-> r.out.listing,
                        dir |-> r.out.dir]
            /\ marks' = r.out.marks
            /\ marksDirExists' = (r.out.marksDirExists \/ r.made)
            /\ home' = r.home
            /\ config' = r.config
            /\ UNCHANGED <<fs, shell, denied>>

\* The user removes or rewrites ~/.mark between two invocations.
EditMark ==
    \E f \in EditedConfigs :
        /\ steps < MaxInvocations
        /\ steps' = steps + 1
        /\ config' = f
        /\ flow' = [op |-> "edit", args |-> <<>>, pwd |-> "", cmd |-> "", exit |-> 0,
                    stdout |-> <<>>, stderr |-> <<>>, setups |-> 0]
        /\ UNCHANGED <<fs, marks, marksDirExists, last, shell, home, denied>>

InitMain ==
    /\ fs = [p \in FsPaths |->
                IF p = "/h/l" THEN LinkNode("/h/a")
                ELSE IF p = "/h/f" THEN FileNode ELSE DirNode]
    /\ marks = << >>
    /\ config \in {SavedConfig(MarksDir)} \cup EditedConfigs
    /\ marksDirExists = (config = SavedConfig(MarksDir))
    /\ last = [op |-> "none", name |-> "", err |-> "ok", path |-> "",
               listing |-> <<>>, dir |-> ""]
    /\ steps = 0
    /\ shell = "/bin/bash"
    /\ home = NoHome
    /\ flow = [op |-> "none", args |-> <<>>, pwd |-> "", cmd |-> "", exit |-> 0,
               stdout |-> <<>>, stderr |-> <<>>, setups |-> 0]
    /\ denied = {}

NextMain ==
    \/ Invoke
    \/ EditMark

SpecMain == InitMain /\ [][NextMain]_vars

-----------------------------------------------------------------------------
(* Two create invocations at the same time.  Each is a process that runs    *)
(* the system calls of createBookmark one at a time: os.MkdirAll, os.Lstat  *)
(* and os.Symlink.                                                          *)

Procs == {1, 2}

\* The names and the target directories the two invocations are given.
RaceNames == {"a", "my mark", "b_c"}
RaceTargets == {"/h/a", "/h/b c"}

\* A process before it has started.
Idle == [pc |-> "idle", name |-> "", target |-> "", err |-> "", exit |-> 0]

\* createBookmark up to and including os.MkdirAll(config.MarksDir)
RaceBegin(self) ==
    \E name \in RaceNames, targetPath \in RaceTargets :
        LET targetDir == TargetDirOf(targetPath, "/h/a")
        IN  /\ flow[self].pc = "idle"
            /\ TargetCheck(targetPath, targetDir, "/h/a") = "ok"
            /\ flow' = [flow EXCEPT ![self] =
                           [pc |-> "lstat", name |-> BookmarkName(name, targetDir),
                            target |-> targetDir, err |-> "", exit |-> 0]]
            /\ marksDirExists' = TRUE
            /\ marks' = IF marksDirExists THEN marks ELSE << >>
            /\ UNCHANGED <<fs, last, steps, shell, home, config, denied>>

\* createBookmark, os.Lstat(symlinkPath): the bookmark already exists
RaceLstat(self) ==
    /\ flow[self].pc = "lstat"
    /\ flow' = [flow EXCEPT ![self] =
                   IF Occupied(Join(MarksDir, flow[self].name))
                   THEN [@ EXCEPT !.pc = "done", !.err = "AlreadyExists", !.exit = 1]
                   ELSE [@ EXCEPT !.pc = "symlink"]]
    /\ UNCHANGED <<fs, marks, marksDirExists, last, steps, shell, home, config, denied>>

\* createBookmark, os.Symlink(targetDir, symlinkPath) and what follows it
RaceSymlink(self) ==
    LET made == Symlink(flow[self].target, flow[self].name)
    IN  /\ flow[self].pc = "symlink"
        /\ flow' = [flow EXCEPT ![self] =
                       IF made.ok THEN [@ EXCEPT !.pc = "done", !.err = "ok"]
                       ELSE [@ EXCEPT !.pc = "done", !.err = "IOFailure", !.exit = 1]]
        /\ marks' = made.marks
        /\ last' = [op |-> "create", name |-> flow[self].name,
                    err |-> (IF made.ok THEN "ok" ELSE "IOFailure"),
                    path |-> (IF made.ok THEN flow[self].target ELSE ""),
                    listing |-> <<>>, dir |-> flow[self].target]
        /\ UNCHANGED <<fs, marksDirExists, steps, shell, home, config, denied>>

InitRace ==
    /\ fs = [p \in FsPaths |->
                IF p = "/h/l" THEN LinkNode("/h/a")
                ELSE IF p = "/h/f" THEN FileNode ELSE DirNode]
    /\ marksDirExists \in BOOLEAN
    /\ marks \in (IF marksDirExists
                  THEN {<< >>, "b_c" :> LinkNode("/h/a"), "b_c" :> FileNode}
                  ELSE {<< >>})
    /\ last = [op |-> "none", name |-> "", err |-> "ok", path |-> "",
               listing |-> <<>>, dir |-> ""]
    /\ steps = 0
    /\ shell = "/bin/bash"
    /\ home = NoHome
    /\ config = SavedConfig(MarksDir)
    /\ flow = [self \in Procs |-> Idle]
    /\ denied = {}

NextRace ==
    \E self \in Procs :
        \/ RaceBegin(self)
        \/ RaceLstat(self)
        \/ RaceSymlink(self)

SpecRace == InitRace /\ [][NextRace]_vars

-----------------------------------------------------------------------------
(* Properties of the bookmark commands.                                    *)

\* The lines of a listing that are about the bookmark called n.
LinesOf(listing, n) == {i \in 1..Len(listing) : listing[i].name = n}

\* What an entry of the marks directory finally leads to.
FinalOf(name) == Walk(Join(MarksDir, name), LinkFuel)

\* C1: after a successful create of a bookmark for an existing directory
\* (given as a path or taken from the working directory), list shows the
\* bookmark with the canonical path of that directory as its target, and
\* jump prints that same canonical path.
C1_CreateThenListAndJump ==
    (last.op = "create" /\ last.err = "ok") =>
        /\ \E i \in LinesOf(ListBookmarks.listing, last.name) :
               ListBookmarks.listing[i].target = last.dir
        /\ JumpBookmark(last.name).err = "ok"
        /\ JumpBookmark(last.name).path = last.dir

\* C2: a create whose name is occupied in the marks directory by an entry
\* of any kind fails, with AlreadyExists when its target directory is
\* valid, and leaves the marks directory, and so the entry and the target
\* of an existing link, as they were.
C2_CreateOnOccupiedName ==
    [][(last'.op = "create" /\ marksDirExists /\ last'.name \in DOMAIN marks) =>
          /\ last'.err \in {"AlreadyExists", "NotFound", "NotADirectory"}
          /\ (last'.dir # "" => last'.err = "AlreadyExists")
          /\ marks' = marks
          /\ fs' = fs]_vars

\* A create failed with AlreadyExists on a name held by a regular file.
C2_Witness ==
    /\ last.op = "create"
    /\ last.err = "AlreadyExists"
    /\ last.name \in DOMAIN marks
    /\ marks[last.name].kind = "file"

\* C3: delete changes nothing but a symbolic link in the marks directory.
\* On an entry that is a regular file or a directory it fails with
\* NotABookmark and the entry stays; a successful delete removes the one
\* link it names and nothing of what the link points to.
C3_DeleteOnlyLinks ==
    [][last'.op = "delete" =>
          /\ fs' = fs
          /\ marksDirExists' = marksDirExists
          /\ \A n \in DOMAIN marks' : n \in DOMAIN marks /\ marks'[n] = marks[n]
          /\ \A n \in DOMAIN marks \ DOMAIN marks' :
                 /\ marks[n].kind = "symlink"
                 /\ n = last'.name
                 /\ last'.err = "ok"
          /\ \A n \in DOMAIN marks :
                 (n = last'.name /\ marks[n].kind \in {"file", "dir"}) =>
                     (last'.err = "NotABookmark" /\ marks' = marks)]_vars

\* A delete of a directory placed in the marks directory was refused.
C3_Witness ==
    /\ last.op = "delete"
    /\ last.err = "NotABookmark"
    /\ last.name \in DOMAIN marks
    /\ marks[last.name].kind = "dir"

\* C8: when the directory a bookmark was just created for is removed, list
\* still shows the bookmark, as broken and with its stored target, and jump
\* fails with BrokenBookmark and prints nothing.  (The outcome of a removal
\* names the bookmark that had just been created for the removed directory,
\* and the target it was stored with.)
C8_BrokenAfterTargetRemoved ==
    (last.op = "rm" /\ last.name # "") =>
        /\ \E i \in LinesOf(ListBookmarks.listing, last.name) :
               /\ ListBookmarks.listing[i].broken
               /\ ListBookmarks.listing[i].target = last.dir
        /\ JumpBookmark(last.name).err = "BrokenBookmark"
        /\ JumpBookmark(last.name).path = ""

C10_Gone ==
    (last.op = "delete" /\ last.err = "ok") =>
        /\ LinesOf(ListBookmarks.listing, last.name) = {}
        /\ JumpBookmark(last.name).err = "NotFound"

C10_Delete ==
    (last'.op = "delete" /\ last'.name # "") =>
        /\ NodeAt(Join(MarksDir, last'.name)).kind = "symlink" => last'.err = "ok"
        /\ NodeAt(Join(MarksDir, last'.name)).kind = "none" =>
               /\ last'.err = "NotFound"
               /\ marks' = marks
               /\ marksDirExists' = marksDirExists
               /\ fs' = fs

C10_DeleteThenGone == []C10_Gone /\ [][C10_Delete]_vars

\* A bookmark that was listed before has been deleted.
C10_Witness ==
    /\ last.op = "delete"
    /\ last.err = "ok"
    /\ last.name \notin DOMAIN marks
    /\ DOMAIN marks # {}

-----------------------------------------------------------------------------
(* Properties of shell set-up.                                             *)

\* The number of lines of a file that contain a text.
RECURSIVE CountLines(_, _)
CountLines(lines, text) ==
    IF lines = <<>> THEN 0
    ELSE (IF Contains(Head(lines), text) THEN 1 ELSE 0) + CountLines(Tail(lines), text)

\* The start-up file completion set-up writes to: .bashrc or .zshrc.
StartupFile == IF DetectShell = "zsh" THEN Zshrc ELSE Bashrc

\* The start-up files of the shells.
StartupFiles == {Bashrc, BashProfile, Profile, Zshrc, FishConfig}

\* C4: when the step that puts the sourcing block into the start-up file
\* of bash or zsh is performed twice in a row, the file holds the marker
\* comment exactly once.  Here a set-up run has performed the step, and it
\* is performed once more.
C4_SourceBlockOnce ==
    (DetectShell \in {"bash", "zsh"} /\ "completion" \in flow.installed) =>
        CountLines(SetupShellCompletion(home).home[StartupFile].lines, MarkerLine) = 1

\* C5: after mark --autocomplete has cleaned up and installed, the start-up
\* file of bash or zsh holds one sourcing block and nothing of an older
\* one: one marker comment, one line sourcing the completion script, at
\* most one compinit line.
C5_OneBlockAfterCleanup ==
    (flow.op = "autocomplete" /\ "completion" \in flow.installed
         /\ DetectShell \in {"bash", "zsh"}) =>
        LET lines == home[StartupFile].lines
        IN  /\ CountLines(lines, MarkerLine) = 1
            /\ CountLines(lines, ".mark.bash") + CountLines(lines, ".mark.zsh") = 1
            /\ CountLines(lines, "compinit") <= 1

\* The lines set-up writes to start-up files (an empty line apart).
MarkLines ==
    UNION {{b[i] : i \in 1..Len(b)} :
               b \in {BashBlock, ZshBlock, AliasBlock, FishAliasBlock, LegacyBlock}}
        \ {""}

\* filter: the lines of a file that no set-up wrote
RECURSIVE UserLines(_)
UserLines(lines) ==
    IF lines = <<>> THEN <<>>
    ELSE (IF Head(lines) \in MarkLines THEN <<>> ELSE <<Head(lines)>>)
             \o UserLines(Tail(lines))

\* The lines of a occur in b, in the same order.
RECURSIVE IsSubseq(_, _)
IsSubseq(a, b) ==
    IF a = <<>> THEN TRUE
    ELSE IF b = <<>> THEN FALSE
    ELSE IF Head(a) = Head(b) THEN IsSubseq(Tail(a), Tail(b))
    ELSE IsSubseq(a, Tail(b))

C7_EveryFlowSkips ==
    [][/\ (flow'.op = "setup" /\ IsCompletionAlreadySetup(home)) =>
              /\ "completion" \notin flow'.prompts
              /\ \E response \in Responses : home' = SetupAliases(home, response).home
       /\ (flow'.op = "autocomplete" /\ IsCompletionAlreadySetup(home)) =>
              /\ flow'.prompts = {}
              /\ home' = home
       /\ (flow'.op = "setup" /\ AreAliasesAlreadySetup(home)) =>
              /\ "aliases" \notin flow'.prompts
              /\ \E response \in Responses : home' = SetupCompletion(home, response).home
       /\ (flow'.op = "alias" /\ AreAliasesAlreadySetup(home)) =>
              /\ flow'.prompts = {}
              /\ home' = home
      ]_vars

-----------------------------------------------------------------------------
(* Properties of the unified resource file.                                *)

\* C11: after the resource file of bash, zsh or fish is written for a pair
\* (includeAliases, includeCompletions), getEnabledFeatures gives back that
\* pair; with the file missing, or without a feature line in it, it gives
\* (false, false).
C11_FeatureRoundTrip ==
    LET sh == DetectShell
        name == GetRCFilePath(sh)
    IN  /\ (flow.op = "writeRC" /\ flow.err = "ok") =>
               GetEnabledFeatures(home, sh) = <<flow.aliases, flow.completions>>
        /\ (name = "" \/ ~home[name].exists
               \/ \A i \in 1..Len(home[name].lines) :
                      ~Contains(home[name].lines[i], "# Features:")) =>
               GetEnabledFeatures(home, sh) = <<FALSE, FALSE>>

\* The file of zsh was written with both features.
C11_Witness ==
    /\ flow.op = "writeRC"
    /\ flow.err = "ok"
    /\ flow.aliases
    /\ flow.completions
    /\ DetectShell = "zsh"
    /\ home[ZshRCFile].exists

-----------------------------------------------------------------------------
(* Properties of set-up and the resource file.                             *)

\* Some line of the file has the text in it.
HasLine(f, text) == f.exists /\ CountLines(f.lines, text) > 0

\* C12: after a set-up run in which completion and aliases were both
\* accepted and installed, the one resource file of the shell
\* (~/.mark_bash_rc, ~/.mark_zsh_rc, ~/.config/fish/conf.d/mark.fish) is
\* there and holds the alias definitions and the completion function.
C12_OneFileBothFeatures ==
    (flow.op = "setup" /\ {"completion", "aliases"} \subseteq flow.installed) =>
        \E name \in DOMAIN home :
            /\ name = GetRCFilePath(DetectShell)
            /\ HasLine(home[name], "alias marks")
            /\ HasLine(home[name], "_mark_complete")

\* C13: with fish as the shell, no set-up run changes
\* ~/.config/fish/config.fish.
C13_FishConfigUntouched ==
    [][DetectShell = "fish" => home'[FishConfig] = home[FishConfig]]_vars

\* A message that names the shell and the three supported shells.
NamesShells(msgs, sh) ==
    \E m \in msgs :
        /\ Contains(m, "'" \o sh \o "'")
        /\ Contains(m, "bash")
        /\ Contains(m, "zsh")
        /\ Contains(m, "fish")

\* C14 as stated: whenever a set-up flow runs with a detected shell that is
\* not bash, zsh or fish, it prints a message that names the shell and the
\* three supported shells, changes no shell file and ends with success.
C14_EveryFlowNamesShells ==
    [][(DetectShell \notin Supported /\ flow'.op \in {"setup", "autocomplete", "alias"}) =>
           /\ NamesShells(flow'.msgs, DetectShell)
           /\ home' = home
           /\ flow'.installed \cap {"completion", "aliases"} = {}
           /\ flow'.exit = 0]_vars

\* With $SHELL naming a shell that is not bash, zsh or fish, what each
\* set-up step prints when its prompt is answered with yes, and what
\* writing the resource file reports.
C14_Accepted ==
    (DetectShell \notin Supported /\ DetectShell # "") =>
        /\ \A response \in {"y", "yes"} :
               /\ NamesShells(SetupCompletion(home, response).msgs, DetectShell)
               /\ NamesShells(SetupAliases(home, response).msgs, DetectShell)
               /\ NamesShells(RunAutocompleteSetup(home, response).msgs, DetectShell)
               /\ NamesShells(RunAliasSetup(home, response).msgs, DetectShell)
        /\ \A includeAliases \in BOOLEAN, includeCompletions \in BOOLEAN :
               WriteShellRC(home, DetectShell, includeAliases, includeCompletions).err
                   = "UnsupportedShell"

\* What a set-up flow does when the shell is not bash, zsh or fish, or none
\* is detected.
C14_NothingDone ==
    (DetectShell \notin Supported /\ flow'.op \in {"setup", "autocomplete", "alias"}) =>
        /\ home' = home
        /\ flow'.installed \cap {"completion", "aliases"} = {}
        /\ flow'.exit = 0
        /\ flow'.prompts # {}
        /\ flow'.msgs # {}

\* C14, amended: when the shell is not bash, zsh or fish, every set-up flow
\* prompts, changes no shell file, installs nothing and ends with success;
\* when $SHELL names such a shell and the prompt is answered with yes, the
\* message names that shell and the three supported shells (with no $SHELL
\* there is no name to print, and a declined prompt ends the step before the
\* shell is looked at); writing the resource file for such a shell is an
\* error.
C14_UnsupportedShell == []C14_Accepted /\ [][C14_NothingDone]_vars

\* mark --alias ran with tcsh as the shell and said that it is not supported.
C14_Witness ==
    /\ flow.op = "alias"
    /\ DetectShell = "tcsh"
    /\ NamesShells(flow.msgs, "tcsh")
    /\ home = NoHome

\* A message of the kind the set-up functions print when a write fails.
IsError(m) == HasPrefix(m, "Error ")

\* C15: when writing the completion script or the start-up file fails
\* during a set-up flow, the flow reports no success, runs no later step
\* (the alias step of the first-run set-up does not prompt after the
\* completion step failed) and the command exits non-zero.
C15_WriteFailureIsTerminal ==
    [][(flow'.op \in {"setup", "autocomplete", "alias"}
           /\ \E m \in flow'.msgs : IsError(m)) =>
           /\ flow'.exit # 0
           /\ \A m \in flow'.msgs : ~Contains(m, "complete!")
           /\ (\E m \in flow'.msgs : IsError(m) /\ Contains(m, "completion script"))
                  => "aliases" \notin flow'.prompts]_vars

-----------------------------------------------------------------------------
(* Further properties of the bookmark commands.                            *)

\* What a path given to create leads to, from the working directory pwd:
\* "dir", "file", or "none" when nothing is there.
TargetKind(targetPath, pwd) ==
    LET p == IF targetPath = "." THEN pwd
             ELSE IF HasPrefix(targetPath, "~/")
                  THEN Join(HomeDir, SubSeq(targetPath, 3, Len(targetPath)))
             ELSE targetPath
        r == Walk(p, LinkFuel)
    IN  IF r.ok THEN NodeAt(r.path).kind ELSE "none"

\* create with each path it may be given, in the state as it is.
C16_Checked ==
    \A name \in NameInputs, targetPath \in TargetInputs \ {""}, pwd \in WorkDirs :
        LET out == CreateBookmark(name, targetPath, pwd)
            kind == TargetKind(targetPath, pwd)
        IN  /\ kind = "none" => out.err = "NotFound"
            /\ kind = "file" => out.err = "NotADirectory"
            /\ out.err \in {"NotFound", "NotADirectory"} =>
                   /\ kind # "dir"
                   /\ out.marks = marks
                   /\ out.marksDirExists = marksDirExists
            /\ out.err = "ok" => kind = "dir"

\* A create command that ran.
C16_Ran ==
    last'.op = "create" =>
        /\ last'.err \in {"NotFound", "NotADirectory"} =>
               /\ marks' = marks
               /\ marksDirExists' = marksDirExists
               /\ fs' = fs
        /\ last'.err = "ok" =>
               /\ last'.dir # ""
               /\ DOMAIN marks' = DOMAIN marks \cup {last'.name}

\* C16: create fails with NotFound when the target does not exist and with
\* NotADirectory when it is not a directory; then no link is made and the
\* marks directory is as it was, not even created; a bookmark that is
\* created designates a directory.
C16_CreateNeedsDirectory == []C16_Checked /\ [][C16_Ran]_vars

\* create failed for a target that is a file, with no marks directory yet.
C16_Witness ==
    /\ last.op = "create"
    /\ last.err = "NotADirectory"
    /\ ~marksDirExists

\* stored is raw with every space replaced by an underscore.
Sanitized(raw, stored) ==
    /\ Len(stored) = Len(raw)
    /\ \A i \in 1..Len(raw) :
           SubSeq(stored, i, i) =
               (IF SubSeq(raw, i, i) = " " THEN "_" ELSE SubSeq(raw, i, i))

\* create with each name and path it may be given, in the state as it is.
C17_Named ==
    \A name \in NameInputs, targetPath \in TargetInputs, pwd \in WorkDirs :
        LET out == CreateBookmark(name, targetPath, pwd)
            valid == targetPath = "" \/ TargetKind(targetPath, pwd) = "dir"
        IN  /\ out.err = "ok" =>
                   /\ Sanitized(IF name = "" THEN Base(out.path) ELSE name, out.name)
                   /\ out.name \in DOMAIN out.marks
                   /\ out.marks[out.name] = LinkNode(out.path)
            /\ (valid /\ Contains(name, "/")) => out.err = "InvalidName"
            /\ out.err = "InvalidName" =>
                   /\ Contains(out.name, "/") \/ out.name = ""
                   /\ out.marks = marks
                   /\ out.marksDirExists = marksDirExists

\* No name in the marks directory has a space or a path separator in it.
C17_StoredNames ==
    \A n \in DOMAIN marks : ~Contains(n, " ") /\ ~Contains(n, "/") /\ n # ""

\* C17: an empty name is replaced by the base name of the target; every
\* space becomes an underscore; create fails with InvalidName, and makes
\* nothing, when the name then has a path separator in it or is empty; so
\* no stored name has a space or a path separator.
C17_BookmarkName == C17_Named /\ C17_StoredNames

\* "my mark" was stored as my_mark.
C17_Witness ==
    /\ last.op = "create"
    /\ last.err = "ok"
    /\ last.name = "my_mark"
    /\ "my_mark" \in DOMAIN marks
    /\ marks["my_mark"].kind = "symlink"

\* C18: list gives exactly the symbolic links of the marks directory, each
\* once, in the order of their names, marked broken exactly when the link
\* leads to nothing; other entries are skipped; an empty or missing marks
\* directory gives an empty list; list never fails.
C18_ListExactlyLinks ==
    last.op = "list" =>
        LET listing == last.listing
            links == IF marksDirExists
                     THEN {n \in DOMAIN marks : marks[n].kind = "symlink"}
                     ELSE {}
        IN  /\ last.err = "ok"
            /\ {listing[i].name : i \in 1..Len(listing)} = links
            /\ Len(listing) = Cardinality(links)
            /\ \A i \in 1..Len(listing), j \in 1..Len(listing) :
                   i < j => StrLess(listing[i].name, listing[j].name)
            /\ \A i \in 1..Len(listing) :
                   /\ listing[i].broken <=> ~FinalOf(listing[i].name).ok
                   /\ listing[i].target = marks[listing[i].name].target

\* list showed two bookmarks.
C18_Witness ==
    /\ last.op = "list"
    /\ Len(last.listing) = 2

-----------------------------------------------------------------------------
(* Properties of the configuration.                                        *)

\* C19: saveConfig, for an absolute marks directory, writes the one line
\* marksdir=<path> with the home directory shortened to ~, and loading that
\* file gives the marks directory that was saved.
C19_ConfigRoundTrip ==
    flow.op = "save" =>
        /\ config.exists
        /\ Len(config.lines) = 1
        /\ HasPrefix(config.lines[1], "marksdir=")
        /\ ConfigValid
        /\ ConfigMarksDir(config.lines, "") = flow.dir

HasMarksDirLine(f) ==
    f.exists /\ \E i \in 1..Len(f.lines) : HasPrefix(f.lines[i], "marksdir=")

C20_Load ==
    flow'.op = "load" =>
        /\ flow'.setup = ~ConfigValid
        /\ flow'.exit \in {0, 1}
        /\ flow'.exit = 1 => (flow'.setup /\ config' = config /\ home' = home)
        /\ flow'.exit = 0 => flow'.dir # ""
        /\ (flow'.setup /\ flow'.exit = 0) => HasMarksDirLine(config')
        /\ ConfigValid => (flow'.exit = 0 /\ config' = config)

Entries == IF marksDirExists THEN DOMAIN marks ELSE {}

C24_Step ==
    \* list and jump change nothing in the marks directory
    /\ last'.op \in {"list", "jump"} =>
           (marks' = marks /\ marksDirExists' = marksDirExists)
    \* an entry that stays is the entry it was
    /\ \A n \in Entries : n \in DOMAIN marks' => marks'[n] = marks[n]
    \* a link that appears is the link of a successful create of its name
    /\ \A n \in DOMAIN marks' \ Entries :
           marks'[n].kind = "symlink" =>
               /\ last'.op = "create" /\ last'.err = "ok" /\ last'.name = n
               /\ marks'[n].target = last'.path
    \* an entry disappears through a successful delete of its name only
    /\ \A n \in Entries \ DOMAIN marks' :
           last'.op = "delete" /\ last'.err = "ok" /\ last'.name = n

\* C24: no step changes a bookmark in place.  list and jump leave the marks
\* directory as it is; every link that is in the marks directory before and
\* after a step has the same target; a link only appears through a
\* successful create of its name, with the target that create stored, and
\* only disappears through a successful delete of its name.
C24_NeverMutated == [][C24_Step]_vars

\* A create for a name that is taken, for another directory than the one
\* the bookmark points to, has been refused and the bookmark is as it was.
C24_Witness ==
    /\ last.op = "create"
    /\ last.err = "AlreadyExists"
    /\ last.name \in DOMAIN marks
    /\ marks[last.name].kind = "symlink"
    /\ last.dir # ""
    /\ marks[last.name].target # last.dir

\* A line of a start-up file that shows the file loads the completion of
\* mark: it names the completion file, or it is the marker of the block.
ShowsSourcing(line) ==
    \/ Contains(line, BashScript)
    \/ Contains(line, ZshScript)
    \/ Contains(line, MarkerLine)

\* C25: the test of a start-up file for the source line is true exactly
\* when the file exists and one of its lines names the completion file of
\* mark or is the marker; it is false for a missing file and for a file
\* without such a line.
C25_SourceLineDetected ==
    \A name \in {Bashrc, BashProfile, Profile, Zshrc} :
        CheckFileForCompletionSource(home, name) <=>
            /\ home[name].exists
            /\ \E i \in 1..Len(home[name].lines) : ShowsSourcing(home[name].lines[i])

\* C26: for bash and zsh, when mark --autocomplete answered with yes has
\* installed the completion, running it once more with the same answer
\* leaves the start-up file with the same lines, blank lines included.
C26_AutocompleteIdempotent ==
    (/\ DetectShell \in {"bash", "zsh"}
     /\ flow.op = "autocomplete"
     /\ "completion" \in flow.installed) =>
        RunAutocompleteSetup(home, "y").home[StartupFile] = home[StartupFile]

C27_Step ==
    (flow'.op \in {"autocomplete", "alias"} /\ DetectShell \in {"bash", "zsh"}) =>
        \* the aliases stay, whatever the run does
        /\ AreAliasesAlreadySetup(home) => AreAliasesAlreadySetup(home')
        \* the completion stays through a run for the aliases
        /\ (flow'.op = "alias" /\ IsCompletionAlreadySetup(home)) =>
               IsCompletionAlreadySetup(home')
        \* and through a run for the completion, unless that run removed the
        \* completion and then failed to write it
        /\ (flow'.op = "autocomplete" /\ IsCompletionAlreadySetup(home)) =>
               \/ IsCompletionAlreadySetup(home')
               \/ /\ "cleanup" \in flow'.installed
                  /\ "completion" \notin flow'.installed
                  /\ \E m \in flow'.msgs : IsError(m)
        \* a run that installed the completion leaves it detected
        /\ "completion" \in flow'.installed => IsCompletionAlreadySetup(home')

ScriptFile == IF DetectShell = "zsh" THEN ZshScript ELSE BashScript

ScriptText == IF DetectShell = "zsh" THEN ZshScriptText ELSE BashScriptText

\* The lines of a file that belong to the block for the completion.
SourceLines(f) == CountLines(f.lines, MarkerLine) + CountLines(f.lines, ScriptFile)

\* The completion step, taken where writing the script fails, leaves every
\* file as it is.
C30_ScriptFirst ==
    (DetectShell \in {"bash", "zsh"} /\ ScriptFile \in denied) =>
        /\ SetupShellCompletion(home).home = home
        /\ ~SetupShellCompletion(home).done

C30_Step ==
    (DetectShell \in {"bash", "zsh"} /\ flow'.op \in {"setup", "autocomplete"}) =>
        \* a flow in which the script cannot be written adds no line of the
        \* block to the start-up file
        /\ ScriptFile \in denied =>
               /\ SourceLines(home'[StartupFile]) <= SourceLines(home[StartupFile])
               /\ "completion" \notin flow'.installed
        \* and where the block was appended the script has been written
        /\ SourceLines(home'[StartupFile]) > SourceLines(home[StartupFile]) =>
               home'[ScriptFile] = TextFile(ScriptText)
        /\ "completion" \in flow'.installed =>
               /\ home'[ScriptFile] = TextFile(ScriptText)
               /\ CountLines(home'[StartupFile].lines, MarkerLine) >= 1

\* C30: the completion set-up for bash and zsh appends to the start-up file
\* only after it has written the completion script: when that write fails
\* the step changes no file, and no set-up flow adds a line of the
\* sourcing block to the start-up file without having written the script.
C30_StartupAfterScript == []C30_ScriptFirst /\ [][C30_Step]_vars

\* A flow has asked for the completion and the write of the script failed.
C30_Witness ==
    /\ DetectShell \in {"bash", "zsh"}
    /\ ScriptFile \in denied
    /\ flow.op \in {"setup", "autocomplete"}
    /\ "completion" \in flow.prompts
    /\ \E m \in flow.msgs : IsError(m)
    /\ CountLines(home[StartupFile].lines, MarkerLine) = 0

-----------------------------------------------------------------------------
(* Properties of one invocation.                                           *)

\* The bookmark command a command line asks for.
IsJumpArgs(args) == Len(args) = 2 /\ args[1] = "-j"
IsDeleteArgs(args) == Len(args) = 2 /\ args[1] = "-d"
IsListArgs(args) == args = <<"-l">>
IsCreateArgs(args) == \A i \in 1..Len(args) : ~HasPrefix(args[i], "-")

\* The entry of the marks directory called name is a link to a directory.
LeadsToDirectory(name) ==
    /\ NodeAt(Join(MarksDir, name)).kind = "symlink"
    /\ FinalOf(name).ok
    /\ NodeAt(FinalOf(name).path).kind = "dir"

\* C21: with a valid configuration, every bookmark command exits with code
\* 0 exactly when it did what it is for (create made a new link, -d removed
\* the link, -j found the directory, -l always), a command that exits with
\* another code has written to standard error, and -j writes the resolved
\* path and nothing else to standard output when it succeeds and nothing
\* when it fails.
C21_Invocation ==
    (flow'.op = "main" /\ ConfigValid) =>
        LET args == flow'.args
        IN  /\ (IsJumpArgs(args) \/ IsDeleteArgs(args) \/ IsListArgs(args)
                    \/ IsCreateArgs(args)) =>
                   (flow'.exit # 0 => flow'.stderr # <<>>)
            /\ IsListArgs(args) => flow'.exit = 0
            /\ IsCreateArgs(args) =>
                   (flow'.exit = 0 <=>
                        \E n \in DOMAIN marks' :
                            /\ marks'[n].kind = "symlink"
                            /\ ~(marksDirExists /\ n \in DOMAIN marks))
            /\ IsDeleteArgs(args) =>
                   (flow'.exit = 0 <=>
                        /\ NodeAt(Join(MarksDir, args[2])).kind = "symlink"
                        /\ args[2] \notin DOMAIN marks')
            /\ IsJumpArgs(args) =>
                   IF LeadsToDirectory(args[2])
                   THEN flow'.exit = 0 /\ flow'.stdout = <<FinalOf(args[2]).path>>
                   ELSE flow'.exit # 0 /\ flow'.stdout = <<>>

C21_ExitCodesAndStreams == [][C21_Invocation]_vars

\* C23: the command line --configure is parsed to the Config flag with no
\* positional argument left, and the invocation runs the set-up and
\* creates no bookmark.
C23_ConfigureIsConfig ==
    (flow.op = "main" /\ flow.args = <<"--configure">>) =>
        /\ ParseFlags(flow.args).flags.Config
        /\ ParseFlags(flow.args).args = <<>>
        /\ flow.cmd \in {"setup", "config"}
        /\ flow.setups >= 1
        /\ last.op # "create"

C28_Invocation ==
    (flow'.op = "main" /\ Len(flow'.args) = 2 /\ flow'.args[1] \in {"-d", "-j"}) =>
        /\ last'.op # "create"
        /\ flow'.args[1] = "-j" => marks' = marks
        /\ flow'.args[1] = "-d" =>
               \/ marks' = marks
               \/ marks' = [n \in DOMAIN marks \ {flow'.args[2]} |-> marks[n]]

\* C28: an invocation with -d or -j and the argument after it, whatever
\* the argument is, creates no bookmark: -j leaves the marks directory as
\* it is, and -d at most removes the link of that name.
C28_FlagNeverCreates == [][C28_Invocation]_vars

\* C29: one invocation runs the set-up at most once.
C29_SetupAtMostOnce == flow.op = "main" => flow.setups <= 1

-----------------------------------------------------------------------------
(* Properties of two creates at the same time.                             *)

C22_AtMostOne ==
    \A p \in Procs : \A q \in Procs \ {p} :
        (flow[p].pc = "done" /\ flow[p].err = "ok") =>
            \* the link of the one that succeeded is its own
            /\ marksDirExists
            /\ flow[p].name \in DOMAIN marks
            /\ marks[flow[p].name] = LinkNode(flow[p].target)
            \* and the other one, given the same name, has not succeeded
            /\ (flow[q].name = flow[p].name /\ flow[q].pc = "done") =>
                   /\ flow[q].err \in {"AlreadyExists", "IOFailure"}
                   /\ flow[q].exit # 0

C22_Step ==
    /\ \A n \in DOMAIN marks : marksDirExists => (n \in DOMAIN marks' /\ marks'[n] = marks[n])
    /\ \A p \in Procs :
           (flow[p].pc = "symlink" /\ flow'[p].pc = "done") =>
               (flow'[p].err = "IOFailure" <=> flow[p].name \in DOMAIN marks)

\* C22: when two creates for the same name run at the same time, in every
\* interleaving of their os.Lstat and os.Symlink calls at most one of them
\* creates the link; both may pass the check, and then the os.Symlink of
\* the second fails and it exits with a code other than 0; the link is the
\* one of the create that succeeded and no step replaces it.
C22_RaceOneWinner == []C22_AtMostOne /\ [][C22_Step]_vars

\* Both creates passed the check for the same name; one made the link and
\* the other failed in os.Symlink.
C22_Witness ==
    \E p \in Procs : \E q \in Procs \ {p} :
        /\ flow[p].pc = "done" /\ flow[p].err = "ok"
        /\ flow[q].pc = "done" /\ flow[q].err = "IOFailure"
        /\ flow[q].name = flow[p].name
        /\ flow[q].target # flow[p].target

====
